---- MODULE Spec2Model ----
(***************************************************************************)
(* Model of the contextual patch engine of hud_controller/tools/           *)
(* apply_patch.py: the V4A grammar parser, the context resolver, the       *)
(* commit builder, the commit applier and the ApplyPatchTool entry points  *)
(* over a file store.                                                      *)
(*                                                                         *)
(* A character is a one-character string, a Python str is a sequence of    *)
(* characters, a list of lines is a sequence of such sequences.  Python    *)
(* indices are 0-based and are kept 0-based in every value the code        *)
(* computes (orig_index, index, new_index).                                *)
(***************************************************************************)
EXTENDS Integers, Sequences, FiniteSets, Bags, TLC

\* ------------------------------------------------------------------------
\* Python str and list primitives
\* ------------------------------------------------------------------------

NL == "\n"

\* str.strip()/rstrip() without argument strip Python whitespace.
IsSpace(c) == c \in {" ", "\n", "\t", "\r"}

\* F applied to the value of x: names a value that the rest of a definition
\* uses in several places, x being worked out once.
With(x, F(_)) == CHOOSE r \in {F(v) : v \in {x}} : TRUE

Min(a, b) == IF a < b THEN a ELSE b
Max(a, b) == IF a > b THEN a ELSE b

\* A slice bound as Python clamps it for a sequence of length n.
SliceBound(k, n) == IF k < 0 THEN Max(k + n, 0) ELSE Min(k, n)

\* s[i:j] with Python's 0-based, clamped, negative-aware bounds.
PySlice(s, i, j) ==
    LET a == SliceBound(i, Len(s))
        b == SliceBound(j, Len(s))
    IN  IF a >= b THEN <<>> ELSE SubSeq(s, a + 1, b)

\* s[n:] for n >= 0.
Drop(s, n) == IF n >= Len(s) THEN <<>> ELSE SubSeq(s, n + 1, Len(s))

\* s.startswith(p)
StartsWith(s, p) == Len(p) <= Len(s) /\ \A i \in 1..Len(p) : s[i] = p[i]

\* s.startswith((p1, p2, ...))
StartsWithAny(s, ps) == \E p \in ps : StartsWith(s, p)

\* The index of the last character of s[1..i] that is not whitespace, or 0.
RECURSIVE LastInk(_, _)
LastInk(s, i) ==
    IF i = 0 THEN 0 ELSE IF IsSpace(s[i]) THEN LastInk(s, i - 1) ELSE i

\* The index of the first character of s[i..] that is not whitespace, or
\* Len(s) + 1.
RECURSIVE FirstInk(_, _)
FirstInk(s, i) ==
    IF i > Len(s) THEN i ELSE IF IsSpace(s[i]) THEN FirstInk(s, i + 1) ELSE i

RStrip(s) == With(s, LAMBDA t : SubSeq(t, 1, LastInk(t, Len(t))))

LStrip(s) == With(s, LAMBDA t : SubSeq(t, FirstInk(t, 1), Len(t)))

Strip(s) == LStrip(RStrip(s))

\* text.split("\n"): always at least one line.
\* s.split(sep) for a one-character separator: the pieces of s[from..],
\* the piece being read starting at index from and read up to index i; it
\* ends at the first separator from i on.
RECURSIVE SplitFrom(_, _, _, _)
SplitFrom(s, sep, from, i) ==
    LET seps == {j \in i..Len(s) : s[j] = sep}
    IN  IF seps = {} THEN <<SubSeq(s, from, Len(s))>>
        ELSE With(CHOOSE j \in seps : \A k \in seps : j <= k, LAMBDA j :
                  <<SubSeq(s, from, j - 1)>> \o SplitFrom(s, sep, j + 1, j + 1))

SplitOn(s, sep) == With(s, LAMBDA t : SplitFrom(t, sep, 1, 1))

Split(text) == SplitOn(text, NL)

\* sep.join(parts) for a one-character separator.
RECURSIVE JoinOn(_, _)
JoinOn(parts, sep) ==
    IF parts = <<>> THEN <<>>
    ELSE IF Len(parts) = 1 THEN parts[1]
    ELSE parts[1] \o <<sep>> \o JoinOn(Tail(parts), sep)

\* "\n".join(lines)
Join(lines) == JoinOn(lines, NL)

MapRStrip(ls) == [k \in 1..Len(ls) |-> RStrip(ls[k])]
MapStrip(ls) == [k \in 1..Len(ls) |-> Strip(ls[k])]

\* ------------------------------------------------------------------------
\* The grammar's literals
\* ------------------------------------------------------------------------

Stars == <<"*", "*", "*">>
BeginPatch == Stars \o <<" ", "B", "e", "g", "i", "n", " ", "P", "a", "t", "c", "h">>
EndPatch == Stars \o <<" ", "E", "n", "d", " ", "P", "a", "t", "c", "h">>
UpdateFileColon == Stars \o <<" ", "U", "p", "d", "a", "t", "e", " ", "F", "i", "l", "e", ":">>
DeleteFileColon == Stars \o <<" ", "D", "e", "l", "e", "t", "e", " ", "F", "i", "l", "e", ":">>
AddFileColon == Stars \o <<" ", "A", "d", "d", " ", "F", "i", "l", "e", ":">>
UpdateFilePrefix == UpdateFileColon \o <<" ">>
DeleteFilePrefix == DeleteFileColon \o <<" ">>
AddFilePrefix == AddFileColon \o <<" ">>
MoveToPrefix == Stars \o <<" ", "M", "o", "v", "e", " ", "t", "o", ":", " ">>
EndOfFile == Stars \o <<" ", "E", "n", "d", " ", "o", "f", " ", "F", "i", "l", "e">>
AtAt == <<"@", "@">>
AtAtSpace == <<"@", "@", " ">>

\* ------------------------------------------------------------------------
\* Errors.  A DiffError is [kind, arg]: kind is the message's fixed text,
\* arg the text the message names (a line, a path, a window) or <<>>.
\* ------------------------------------------------------------------------

NoErr == [kind |-> "", arg |-> <<>>]
Err(k, a) == [kind |-> k, arg |-> a]
IsErr(e) == e.kind # ""

\* ------------------------------------------------------------------------
\* Context Resolver
\* ------------------------------------------------------------------------

\* lines[i:i + len(context)] == context, for lines and context as they are
\* or with every line of both right-trimmed or trimmed.
MatchesAt(lines, context, i) == PySlice(lines, i, i + Len(context)) = context

\* The offsets of range(start, len(lines)) at which the window matches.
MatchSet(lines, context, start) ==
    {i \in start..(Len(lines) - 1) : MatchesAt(lines, context, i)}

SetMin(S) == CHOOSE x \in S : \A y \in S : x <= y

\* The lowest offset of range(start, len(lines)) at which the window
\* matches, or -1.
FirstMatch(lines, context, start) ==
    With(MatchSet(lines, context, start),
         LAMBDA S : IF S = {} THEN -1 ELSE SetMin(S))

\* find_context_core trying the whitespace-trimmed comparison right after the
\* exact one, without the right-trimmed comparison in between.
find_context_core_no_rstrip(lines, context, start) ==
    IF context = <<>> THEN [index |-> start, fuzz |-> 0]
    ELSE With(FirstMatch(lines, context, start), LAMBDA exact :
         IF exact # -1 THEN [index |-> exact, fuzz |-> 0]
         ELSE With(FirstMatch(MapStrip(lines), MapStrip(context), start), LAMBDA strip :
         IF strip # -1 THEN [index |-> strip, fuzz |-> 100]
         ELSE [index |-> -1, fuzz |-> 0]))

\* find_context_core giving up after the right-trimmed comparison.
find_context_core_no_strip(lines, context, start) ==
    IF context = <<>> THEN [index |-> start, fuzz |-> 0]
    ELSE With(FirstMatch(lines, context, start), LAMBDA exact :
         IF exact # -1 THEN [index |-> exact, fuzz |-> 0]
         ELSE With(FirstMatch(MapRStrip(lines), MapRStrip(context), start), LAMBDA rstrip :
         IF rstrip # -1 THEN [index |-> rstrip, fuzz |-> 1]
         ELSE [index |-> -1, fuzz |-> 0]))

\* find_context_core walking the offsets once and taking the first at which
\* some comparison succeeds, in place of one walk for each comparison.
find_context_core_one_pass(lines, context, start) ==
    IF context = <<>> THEN [index |-> start, fuzz |-> 0]
    ELSE With(FirstMatch(MapStrip(lines), MapStrip(context), start), LAMBDA first :
         IF first = -1 THEN [index |-> -1, fuzz |-> 0]
         ELSE IF MatchesAt(lines, context, first) THEN [index |-> first, fuzz |-> 0]
         ELSE IF MatchesAt(MapRStrip(lines), MapRStrip(context), first)
         THEN [index |-> first, fuzz |-> 1]
         ELSE [index |-> first, fuzz |-> 100])

find_context_core(lines, context, start) ==
    IF context = <<>> THEN [index |-> start, fuzz |-> 0]
    ELSE With(FirstMatch(lines, context, start), LAMBDA exact :
         IF exact # -1 THEN [index |-> exact, fuzz |-> 0]
         ELSE With(FirstMatch(MapRStrip(lines), MapRStrip(context), start), LAMBDA rstrip :
         IF rstrip # -1 THEN [index |-> rstrip, fuzz |-> 1]
         ELSE With(FirstMatch(MapStrip(lines), MapStrip(context), start), LAMBDA strip :
         IF strip # -1 THEN [index |-> strip, fuzz |-> 100]
         ELSE [index |-> -1, fuzz |-> 0])))

\* find_context without the lookup at the end of the file.
find_context_forward_only(lines, context, start, eof) ==
    With(find_context_core(lines, context, start), LAMBDA fwd :
         IF eof THEN [index |-> fwd.index, fuzz |-> fwd.fuzz + 10000] ELSE fwd)

\* find_context charging nothing for an end-of-file hunk found away from
\* the end of the file.
find_context_no_penalty(lines, context, start, eof) ==
    IF eof
    THEN With(find_context_core(lines, context, Len(lines) - Len(context)), LAMBDA tail :
         IF tail.index # -1 THEN tail
         ELSE find_context_core(lines, context, start))
    ELSE find_context_core(lines, context, start)

\* find_context refusing the match of an end-of-file hunk found away from
\* the end of the file, for what it costs.
find_context_costly_refused(lines, context, start, eof) ==
    IF eof
    THEN With(find_context_core(lines, context, Len(lines) - Len(context)), LAMBDA tail :
         IF tail.index # -1 THEN tail ELSE [index |-> -1, fuzz |-> 10000])
    ELSE find_context_core(lines, context, start)

find_context(lines, context, start, eof) ==
    IF eof
    THEN With(find_context_core(lines, context, Len(lines) - Len(context)), LAMBDA tail :
         IF tail.index # -1 THEN tail
         ELSE With(find_context_core(lines, context, start), LAMBDA fwd :
              [index |-> fwd.index, fuzz |-> fwd.fuzz + 10000]))
    ELSE find_context_core(lines, context, start)

\* ------------------------------------------------------------------------
\* Commit Builder
\* ------------------------------------------------------------------------

Chunk(i, d, a) == [orig_index |-> i, del_lines |-> d, ins_lines |-> a]

\* BuildLoop without the test that the cursor has not passed the chunk.
RECURSIVE BuildLoopUnordered(_, _, _, _, _)
BuildLoopUnordered(orig_lines, chunks, k, orig_index, dest_lines) ==
    IF k > Len(chunks)
    THEN [err |-> NoErr,
          lines |-> dest_lines \o PySlice(orig_lines, orig_index, Len(orig_lines)),
          content |-> Join(dest_lines \o PySlice(orig_lines, orig_index, Len(orig_lines)))]
    ELSE LET chunk == chunks[k] IN
         IF chunk.orig_index > Len(orig_lines)
         THEN [err |-> Err("_get_updated_file: chunk.orig_index > len(lines)", <<>>),
               lines |-> <<>>, content |-> <<>>]
         ELSE BuildLoopUnordered(orig_lines, chunks, k + 1,
                                 chunk.orig_index + Len(chunk.del_lines),
                                 dest_lines
                                    \o PySlice(orig_lines, orig_index, chunk.orig_index)
                                    \o chunk.ins_lines)

\* BuildLoop advancing the cursor to the chunk only, not past its del_lines.
RECURSIVE BuildLoopKeepsRemoved(_, _, _, _, _)
BuildLoopKeepsRemoved(orig_lines, chunks, k, orig_index, dest_lines) ==
    IF k > Len(chunks)
    THEN [err |-> NoErr,
          lines |-> dest_lines \o PySlice(orig_lines, orig_index, Len(orig_lines)),
          content |-> Join(dest_lines \o PySlice(orig_lines, orig_index, Len(orig_lines)))]
    ELSE LET chunk == chunks[k] IN
         IF chunk.orig_index > Len(orig_lines)
         THEN [err |-> Err("_get_updated_file: chunk.orig_index > len(lines)", <<>>),
               lines |-> <<>>, content |-> <<>>]
         ELSE IF orig_index > chunk.orig_index
         THEN [err |-> Err("_get_updated_file: orig_index > chunk.orig_index", <<>>),
               lines |-> <<>>, content |-> <<>>]
         ELSE BuildLoopKeepsRemoved(orig_lines, chunks, k + 1,
                                    chunk.orig_index,
                                    dest_lines
                                       \o PySlice(orig_lines, orig_index, chunk.orig_index)
                                       \o chunk.ins_lines)

\* BuildLoop returning after the last chunk without the rest of the file.
RECURSIVE BuildLoopNoTail(_, _, _, _, _)
BuildLoopNoTail(orig_lines, chunks, k, orig_index, dest_lines) ==
    IF k > Len(chunks)
    THEN [err |-> NoErr, lines |-> dest_lines, content |-> Join(dest_lines)]
    ELSE LET chunk == chunks[k] IN
         IF chunk.orig_index > Len(orig_lines)
         THEN [err |-> Err("_get_updated_file: chunk.orig_index > len(lines)", <<>>),
               lines |-> <<>>, content |-> <<>>]
         ELSE IF orig_index > chunk.orig_index
         THEN [err |-> Err("_get_updated_file: orig_index > chunk.orig_index", <<>>),
               lines |-> <<>>, content |-> <<>>]
         ELSE BuildLoopNoTail(orig_lines, chunks, k + 1,
                              chunk.orig_index + Len(chunk.del_lines),
                              dest_lines
                                 \o PySlice(orig_lines, orig_index, chunk.orig_index)
                                 \o chunk.ins_lines)

\* The loop of _get_updated_file from chunk k on, with the running
\* orig_index and dest_lines: [err, lines, content], lines being dest_lines
\* at the return and content the text returned.
RECURSIVE BuildLoop(_, _, _, _, _)
BuildLoop(orig_lines, chunks, k, orig_index, dest_lines) ==
    IF k > Len(chunks)
    THEN [err |-> NoErr,
          lines |-> dest_lines \o PySlice(orig_lines, orig_index, Len(orig_lines)),
          content |-> Join(dest_lines \o PySlice(orig_lines, orig_index, Len(orig_lines)))]
    ELSE LET chunk == chunks[k] IN
         IF chunk.orig_index > Len(orig_lines)
         THEN [err |-> Err("_get_updated_file: chunk.orig_index > len(lines)", <<>>),
               lines |-> <<>>, content |-> <<>>]
         ELSE IF orig_index > chunk.orig_index
         THEN [err |-> Err("_get_updated_file: orig_index > chunk.orig_index", <<>>),
               lines |-> <<>>, content |-> <<>>]
         ELSE BuildLoop(orig_lines, chunks, k + 1,
                        chunk.orig_index + Len(chunk.del_lines),
                        dest_lines \o PySlice(orig_lines, orig_index, chunk.orig_index)
                                   \o chunk.ins_lines)

get_updated_file(text, chunks) == BuildLoop(Split(text), chunks, 1, 0, <<>>)

\* ------------------------------------------------------------------------
\* Grammar Parser.  plines is Parser.lines, pindex is Parser.index (0-based:
\* the current line is plines[pindex + 1]).
\* ------------------------------------------------------------------------

\* Reading past the last line: the assert of read_str/startswith, or the
\* IndexError of self.lines[self.index].  Neither is a DiffError.
PastEnd == Err("Index past the last line", <<>>)

is_done(plines, pindex, prefixes) ==
    \/ pindex >= Len(plines)
    \/ prefixes # {} /\ StartsWithAny(plines[pindex + 1], prefixes)

\* read_str(prefix): the text after the prefix and the index after the
\* line, or "" and the index unchanged when the line has no such prefix.
read_str(plines, pindex, prefix) ==
    IF StartsWith(plines[pindex + 1], prefix)
    THEN [text |-> Drop(plines[pindex + 1], Len(prefix)), index |-> pindex + 1]
    ELSE [text |-> <<>>, index |-> pindex]

PeekStops == {AtAt, EndPatch, UpdateFileColon, DeleteFileColon, AddFileColon, EndOfFile}

LineMode(s) ==
    IF s[1] = "+" THEN "add"
    ELSE IF s[1] = "-" THEN "delete"
    ELSE IF s[1] = " " THEN "keep"
    ELSE "invalid"

\* One iteration of the while loop of _peek_next_section on line s (not a
\* stop line): st holds the loop's locals.
PeekStep(st, s0) ==
    LET s == IF s0 = <<>> THEN <<" ">> ELSE s0
        mode == LineMode(s)
        text == Tail(s)
        flush == mode = "keep" /\ st.mode # mode
        chunks1 == IF flush /\ (st.ins_lines # <<>> \/ st.del_lines # <<>>)
                   THEN Append(st.chunks,
                               Chunk(Len(st.old) - Len(st.del_lines),
                                     st.del_lines, st.ins_lines))
                   ELSE st.chunks
        del1 == IF flush THEN <<>> ELSE st.del_lines
        ins1 == IF flush THEN <<>> ELSE st.ins_lines
    IN  IF mode = "invalid"
        THEN [st EXCEPT !.index = st.index + 1, !.err = Err("Invalid Line: ", s)]
        ELSE [index |-> st.index + 1,
              mode |-> mode,
              chunks |-> chunks1,
              old |-> IF mode = "add" THEN st.old ELSE Append(st.old, text),
              del_lines |-> IF mode = "delete" THEN Append(del1, text) ELSE del1,
              ins_lines |-> IF mode = "add" THEN Append(ins1, text) ELSE ins1,
              err |-> NoErr]

RECURSIVE PeekLoop(_, _)
PeekLoop(plines, st) ==
    IF st.index >= Len(plines) \/ IsErr(st.err) THEN st
    ELSE LET s == plines[st.index + 1] IN
         IF StartsWithAny(s, PeekStops) THEN st
         ELSE IF s = Stars THEN st
         ELSE IF StartsWith(s, Stars) THEN [st EXCEPT !.err = Err("Invalid Line: ", s)]
         ELSE With(PeekStep(st, s), LAMBDA next : PeekLoop(plines, next))

\* What _peek_next_section does after its while loop ended with the locals
\* st: [old, chunks, index, eof, err].
PeekEnd(plines, pindex, st) ==
    With([old |-> st.old,
          chunks |-> IF st.ins_lines # <<>> \/ st.del_lines # <<>>
                     THEN Append(st.chunks,
                                 Chunk(Len(st.old) - Len(st.del_lines),
                                       st.del_lines, st.ins_lines))
                     ELSE st.chunks,
          index |-> st.index, eof |-> FALSE, err |-> st.err],
         LAMBDA out :
            IF IsErr(st.err) THEN out
            ELSE IF st.index < Len(plines) /\ plines[st.index + 1] = EndOfFile
            THEN [out EXCEPT !.index = st.index + 1, !.eof = TRUE]
            ELSE IF st.index = pindex
            THEN [out EXCEPT !.err = IF st.index < Len(plines)
                                     THEN Err("Nothing in this section", plines[st.index + 1])
                                     ELSE PastEnd]
            ELSE out)

\* _peek_next_section: [old, chunks, index, eof, err].
peek_next_section(plines, pindex) ==
    With(PeekLoop(plines, [index |-> pindex, mode |-> "keep", chunks |-> <<>>,
                           old |-> <<>>, del_lines |-> <<>>, ins_lines |-> <<>>,
                           err |-> NoErr]),
         LAMBDA st : PeekEnd(plines, pindex, st))

UpdateStops == {EndPatch, UpdateFileColon, DeleteFileColon, AddFileColon, EndOfFile}

\* The index of the first line of lines[index:] equal to text, or -1.
FirstLineEq(lines, index, text) ==
    With({i \in index..(Len(lines) - 1) : lines[i + 1] = text},
         LAMBDA S : IF S = {} THEN -1 ELSE SetMin(S))

\* The index of the first line of lines[index:] equal to text after both
\* are stripped, or -1.
FirstLineStripEq(lines, index, text) ==
    With({i \in index..(Len(lines) - 1) : Strip(lines[i + 1]) = Strip(text)},
         LAMBDA S : IF S = {} THEN -1 ELSE SetMin(S))

\* Lines 168-183 of parse_update_file: the "@@ <text>" anchor search from
\* the cursor index; [index, fuzz] after it.
seek_anchor(lines, index, def_str) ==
    IF Strip(def_str) = <<>> THEN [index |-> index, fuzz |-> 0]
    ELSE With(IF \E k \in 1..Min(index, Len(lines)) : lines[k] = def_str
              THEN -1 ELSE FirstLineEq(lines, index, def_str), LAMBDA exact :
         IF exact # -1 THEN [index |-> exact + 1, fuzz |-> 0]
         ELSE With(IF \E k \in 1..Min(index, Len(lines)) : Strip(lines[k]) = Strip(def_str)
                   THEN -1 ELSE FirstLineStripEq(lines, index, def_str), LAMBDA loose :
         IF loose # -1 THEN [index |-> loose + 1, fuzz |-> 1]
         ELSE [index |-> index, fuzz |-> 0]))

\* ResolveHunk leaving the chunks of the hunk where _peek_next_section
\* placed them within the window, the offset of the window not added.
ResolveHunkUnshifted(plines, lines, st, pindex1, a, peek) ==
    IF IsErr(peek.err) THEN [st EXCEPT !.err = peek.err]
    ELSE With(find_context(lines, peek.old, a.index, peek.eof), LAMBDA found :
         IF found.index = -1
         THEN [st EXCEPT !.err = Err(IF peek.eof THEN "Invalid EOF Context "
                                                 ELSE "Invalid Context ",
                                     Join(peek.old))]
         ELSE [pindex |-> peek.index,
               index |-> found.index + Len(peek.old),
               fuzz |-> st.fuzz + a.fuzz + found.fuzz,
               chunks |-> st.chunks \o peek.chunks,
               hunks |-> Append(st.hunks,
                                [cursor |-> st.index,
                                 anchor_line |-> IF pindex1 > st.pindex
                                                 THEN plines[pindex1] ELSE <<>>,
                                 start |-> a.index, new_index |-> found.index,
                                 window |-> peek.old, eof |-> peek.eof,
                                 fuzz |-> found.fuzz, anchor_fuzz |-> a.fuzz,
                                 chunks |-> <<Len(st.chunks) + 1,
                                              Len(st.chunks) + Len(peek.chunks)>>,
                                 body |-> SubSeq(plines, pindex1 + 1,
                                                 peek.index - (IF peek.eof THEN 1 ELSE 0))]),
               err |-> NoErr])

\* Lines 185-202 of parse_update_file: the hunk whose body starts at line
\* pindex1 is read, resolved from the cursor a.index and its chunks added.
ResolveHunk(plines, lines, st, pindex1, a, peek) ==
    IF IsErr(peek.err) THEN [st EXCEPT !.err = peek.err]
    ELSE With(find_context(lines, peek.old, a.index, peek.eof), LAMBDA found :
         IF found.index = -1
         THEN [st EXCEPT !.err = Err(IF peek.eof THEN "Invalid EOF Context "
                                                 ELSE "Invalid Context ",
                                     Join(peek.old))]
         ELSE [pindex |-> peek.index,
               index |-> found.index + Len(peek.old),
               fuzz |-> st.fuzz + a.fuzz + found.fuzz,
               chunks |-> st.chunks \o
                          [k \in 1..Len(peek.chunks) |->
                             [peek.chunks[k] EXCEPT !.orig_index = @ + found.index]],
               hunks |-> Append(st.hunks,
                                [cursor |-> st.index,
                                 anchor_line |-> IF pindex1 > st.pindex
                                                 THEN plines[pindex1] ELSE <<>>,
                                 start |-> a.index, new_index |-> found.index,
                                 window |-> peek.old, eof |-> peek.eof,
                                 fuzz |-> found.fuzz, anchor_fuzz |-> a.fuzz,
                                 chunks |-> <<Len(st.chunks) + 1,
                                              Len(st.chunks) + Len(peek.chunks)>>,
                                 body |-> SubSeq(plines, pindex1 + 1,
                                                 peek.index - (IF peek.eof THEN 1 ELSE 0))]),
               err |-> NoErr])

\* OpenHunk refusing no hunk for the lack of an anchor line.
OpenHunkAnywhere(plines, lines, st, r) ==
    IF r.text = <<>> /\ r.index >= Len(plines) THEN [st EXCEPT !.err = PastEnd]
    ELSE With(r.text = <<>> /\ plines[r.index + 1] = AtAt, LAMBDA bare :
         With(IF bare THEN r.index + 1 ELSE r.index, LAMBDA pindex1 :
         With(seek_anchor(lines, st.index, r.text), LAMBDA a :
         With(peek_next_section(plines, pindex1), LAMBDA peek :
         ResolveHunk(plines, lines, st, pindex1, a, peek)))))

\* Lines 158-166 of parse_update_file, r being what read_str("@@ ") gave:
\* the anchor line is taken, and a hunk without one is refused unless the
\* cursor is 0.
OpenHunk(plines, lines, st, r) ==
    IF r.text = <<>> /\ r.index >= Len(plines) THEN [st EXCEPT !.err = PastEnd]
    ELSE With(r.text = <<>> /\ plines[r.index + 1] = AtAt, LAMBDA bare :
         With(IF bare THEN r.index + 1 ELSE r.index, LAMBDA pindex1 :
         IF ~(r.text # <<>> \/ bare \/ st.index = 0)
         THEN [st EXCEPT !.err = Err("Invalid Line:\n", plines[pindex1 + 1])]
         ELSE With(seek_anchor(lines, st.index, r.text), LAMBDA a :
              With(peek_next_section(plines, pindex1), LAMBDA peek :
              ResolveHunk(plines, lines, st, pindex1, a, peek)))))

\* One iteration of the while loop of parse_update_file.  st holds
\* self.index (pindex), the cursor index, self.fuzz, action.chunks, and
\* hunks: for every hunk resolved so far, the cursor the section was at and
\* the anchor line of the hunk (<<>> without one), the cursor it was
\* resolved from (start), the offset found, its window, its end-of-file
\* flag, its body lines and the first and last of the chunks it gave.
UpdateStep(plines, lines, st) ==
    With(read_str(plines, st.pindex, AtAtSpace), LAMBDA r : OpenHunk(plines, lines, st, r))

\* Lines 147-149 of parse_update_file: the state the loop is entered in.
NewUpdate(pindex, fuzz) ==
    [pindex |-> pindex, index |-> 0, fuzz |-> fuzz, chunks |-> <<>>,
     hunks |-> <<>>, err |-> NoErr]

RECURSIVE UpdateLoop(_, _, _)
UpdateLoop(plines, lines, st) ==
    IF IsErr(st.err) \/ is_done(plines, st.pindex, UpdateStops) THEN st
    ELSE With(UpdateStep(plines, lines, st), LAMBDA next : UpdateLoop(plines, lines, next))

\* parse_update_file(text) entered with self.index = pindex and self.fuzz =
\* fuzz: [pindex, index, fuzz, chunks, hunks, err] when it returns or raises.
parse_update_file(plines, pindex, fuzz, text) ==
    UpdateLoop(plines, Split(text), NewUpdate(pindex, fuzz))

AddStops == {EndPatch, UpdateFileColon, DeleteFileColon, AddFileColon}

\* Line 207 of parse_add_file: the state its loop is entered in, body
\* being the list lines.
NewAdd(pindex) == [pindex |-> pindex, body |-> <<>>, err |-> NoErr]

\* AddStep leaving a line that does not open with "+" where it is.
AddStepNotConsuming(plines, st) ==
    LET s == plines[st.pindex + 1] IN
    IF ~StartsWith(s, <<"+">>) THEN st
    ELSE [st EXCEPT !.pindex = @ + 1, !.body = Append(@, Tail(s))]

\* One iteration of the while loop of parse_add_file (lines 211-215).
AddStep(plines, st) ==
    LET s == plines[st.pindex + 1] IN
    IF ~StartsWith(s, <<"+">>)
    THEN [st EXCEPT !.pindex = @ + 1, !.err = Err("Invalid Add File Line: ", s)]
    ELSE [st EXCEPT !.pindex = @ + 1, !.body = Append(@, Tail(s))]

RECURSIVE AddLoop(_, _)
AddLoop(plines, st) ==
    IF IsErr(st.err) \/ is_done(plines, st.pindex, AddStops) THEN st
    ELSE With(AddStep(plines, st), LAMBDA next : AddLoop(plines, next))

\* Line 216 of parse_add_file, st being the state its loop ended in:
\* [pindex, new_file, err].
AddEnd(st) ==
    [pindex |-> st.pindex, err |-> st.err,
     new_file |-> IF IsErr(st.err) THEN <<>> ELSE Join(st.body)]

\* parse_add_file entered with self.index = pindex: [pindex, new_file, err].
parse_add_file(plines, pindex) == AddEnd(AddLoop(plines, NewAdd(pindex)))

\* A PatchAction with the path it is stored under in Patch.actions (a dict,
\* kept as the sequence of its items in insertion order).  move_path None
\* and new_file None are <<>>; hunks is the record of parse_update_file.
PatchAction(path, type, new_file, chunks, move_path, hunks) ==
    [path |-> path, type |-> type, new_file |-> new_file, chunks |-> chunks,
     move_path |-> move_path, hunks |-> hunks]

\* The parser taking no path for named yet.
ActionPathsForgotten(actions) == {}

ActionPaths(actions) == {actions[k].path : k \in 1..Len(actions)}

\* The header tests of one iteration of the while loop of Parser.parse
\* (lines 111-117, 124-129, 133-136 and 140), st being [pindex, fuzz,
\* actions, err] and current_files the loaded paths with their text:
\* [kind, path, move_path, pindex, err], kind being "update", "delete" or
\* "add" for a header that is taken, pindex the index its body begins at,
\* and kind "" with the error raised otherwise.
SectionHead(plines, current_files, st) ==
    LET upd == read_str(plines, st.pindex, UpdateFilePrefix)
        mv == read_str(plines, upd.index, MoveToPrefix)
        del == read_str(plines, upd.index, DeleteFilePrefix)
        add == read_str(plines, del.index, AddFilePrefix)
        Taken(kind, path, move_path, pindex) ==
            [kind |-> kind, path |-> path, move_path |-> move_path,
             pindex |-> pindex, err |-> NoErr]
        Raised(e) ==
            [kind |-> "", path |-> <<>>, move_path |-> <<>>,
             pindex |-> st.pindex, err |-> e]
    IN  IF upd.text # <<>>
        THEN IF upd.text \in ActionPaths(st.actions)
             THEN Raised(Err("Update File Error: Duplicate Path: ", upd.text))
             ELSE IF upd.index >= Len(plines)
             THEN Raised(PastEnd)
             ELSE IF upd.text \notin DOMAIN current_files
             THEN Raised(Err("Update File Error: Missing File: ", upd.text))
             ELSE Taken("update", upd.text, mv.text, mv.index)
        ELSE IF upd.index >= Len(plines)
        THEN Raised(PastEnd)
        ELSE IF del.text # <<>>
        THEN IF del.text \in ActionPaths(st.actions)
             THEN Raised(Err("Delete File Error: Duplicate Path: ", del.text))
             ELSE IF del.text \notin DOMAIN current_files
             THEN Raised(Err("Delete File Error: Missing File: ", del.text))
             ELSE Taken("delete", del.text, <<>>, del.index)
        ELSE IF del.index >= Len(plines)
        THEN Raised(PastEnd)
        ELSE IF add.text # <<>>
        THEN IF add.text \in ActionPaths(st.actions)
             THEN Raised(Err("Add File Error: Duplicate Path: ", add.text))
             ELSE Taken("add", add.text, <<>>, add.index)
        ELSE IF add.index >= Len(plines)
        THEN Raised(PastEnd)
        ELSE Raised(Err("Unknown Line: ", plines[add.index + 1]))

\* Lines 119-122 of Parser.parse, u being what parse_update_file gave for
\* the section of the header head.
UpdateDone(st, head, u) ==
    IF IsErr(u.err)
    THEN [st EXCEPT !.err = u.err]
    ELSE [pindex |-> u.pindex, fuzz |-> u.fuzz, err |-> NoErr,
          actions |-> Append(st.actions,
                             PatchAction(head.path, "update", <<>>, u.chunks,
                                         head.move_path, u.hunks))]

\* Lines 130-131 of Parser.parse.
DeleteDone(st, head) ==
    [st EXCEPT !.pindex = head.pindex,
               !.actions = Append(@, PatchAction(head.path, "delete", <<>>,
                                                 <<>>, <<>>, <<>>))]

\* Lines 137-138 of Parser.parse, a being what parse_add_file gave.
AddDone(st, head, a) ==
    IF IsErr(a.err)
    THEN [st EXCEPT !.err = a.err]
    ELSE [st EXCEPT !.pindex = a.pindex,
                    !.actions = Append(@, PatchAction(head.path, "add", a.new_file,
                                                      <<>>, <<>>, <<>>))]

\* One iteration of the while loop of Parser.parse.
ParseStep(plines, current_files, st) ==
    With(SectionHead(plines, current_files, st), LAMBDA head :
        IF head.kind = "update"
        THEN UpdateDone(st, head,
                        parse_update_file(plines, head.pindex, st.fuzz,
                                          current_files[head.path]))
        ELSE IF head.kind = "delete" THEN DeleteDone(st, head)
        ELSE IF head.kind = "add"
        THEN AddDone(st, head, parse_add_file(plines, head.pindex))
        ELSE [st EXCEPT !.err = head.err])

RECURSIVE ParseLoop(_, _, _)
ParseLoop(plines, current_files, st) ==
    IF IsErr(st.err) \/ is_done(plines, st.pindex, {EndPatch}) THEN st
    ELSE With(ParseStep(plines, current_files, st),
              LAMBDA next : ParseLoop(plines, current_files, next))

\* Lines 141-144 of Parser.parse, st being the state the loop ended in.
ParseEnd(plines, st) ==
    IF IsErr(st.err) THEN st
    ELSE IF st.pindex >= Len(plines) THEN [st EXCEPT !.err = PastEnd]
    ELSE IF ~StartsWith(plines[st.pindex + 1], EndPatch)
    THEN [st EXCEPT !.err = Err("Missing End Patch", <<>>)]
    ELSE [st EXCEPT !.pindex = @ + 1]

\* Parser.parse from self.index = pindex: [pindex, fuzz, actions, err].
parse(plines, current_files, pindex) ==
    ParseEnd(plines,
             ParseLoop(plines, current_files,
                       [pindex |-> pindex, fuzz |-> 0, actions |-> <<>>, err |-> NoErr]))

\* The test of lines 357-358 of _text_to_patch on the lines of the text.
InvalidPatchText(lines) ==
    Len(lines) < 2 \/ ~StartsWith(lines[1], BeginPatch) \/ lines[Len(lines)] # EndPatch

\* _text_to_patch: [actions, fuzz, err].
text_to_patch(text, orig) ==
    With(Split(Strip(text)), LAMBDA lines :
        IF InvalidPatchText(lines)
        THEN [actions |-> <<>>, fuzz |-> 0, err |-> Err("Invalid patch text", <<>>)]
        ELSE With(parse(lines, orig, 1), LAMBDA p :
                  [actions |-> p.actions, fuzz |-> p.fuzz, err |-> p.err]))

\* _identify_files_needed: the set the paths are collected in.
identify_files_needed(text) ==
    With(Split(Strip(text)), LAMBDA lines :
        {Drop(lines[k], Len(UpdateFilePrefix)) :
            k \in {j \in 1..Len(lines) : StartsWith(lines[j], UpdateFilePrefix)}}
        \cup
        {Drop(lines[k], Len(DeleteFilePrefix)) :
            k \in {j \in 1..Len(lines) : StartsWith(lines[j], DeleteFilePrefix)}})

FileChange(path, type, old_content, new_content, move_path) ==
    [path |-> path, type |-> type, old_content |-> old_content,
     new_content |-> new_content, move_path |-> move_path]

\* _patch_to_commit from action k on: [changes, err].  Commit.changes is a
\* dict, kept as the sequence of its items in insertion order.
RECURSIVE CommitLoop(_, _, _, _)
CommitLoop(actions, orig, k, changes) ==
    IF k > Len(actions) THEN [changes |-> changes, err |-> NoErr]
    ELSE LET action == actions[k]
         IN  IF action.type = "delete"
             THEN CommitLoop(actions, orig, k + 1,
                      Append(changes, FileChange(action.path, "delete",
                                                 orig[action.path], <<>>, <<>>)))
             ELSE IF action.type = "add"
             THEN CommitLoop(actions, orig, k + 1,
                      Append(changes, FileChange(action.path, "add", <<>>,
                                                 action.new_file, <<>>)))
             ELSE With(get_updated_file(orig[action.path], action.chunks), LAMBDA built :
                  IF IsErr(built.err)
                  THEN [changes |-> changes, err |-> built.err]
                  ELSE CommitLoop(actions, orig, k + 1,
                           Append(changes, FileChange(action.path, "update",
                                                      orig[action.path], built.content,
                                                      action.move_path))))

patch_to_commit(actions, orig) == CommitLoop(actions, orig, 1, <<>>)

\* ------------------------------------------------------------------------
\* The file store and path confinement.  A store maps the full path of
\* every file to its text; a directory is there when it is the root, the
\* base directory or an ancestor of a file.  A world w is [fs, log]: the
\* store and the accesses made to it, each [op, path] with the full path.
\* ------------------------------------------------------------------------

Slash == "/"

\* ApplyPatchTool.base_path
BasePath == <<"/", "w">>

\* os.path.join(a, b) for a non-empty a
path_join(a, b) ==
    IF StartsWith(b, <<Slash>>) THEN b
    ELSE IF a[Len(a)] = Slash THEN a \o b
    ELSE a \o <<Slash>> \o b

DotDot == <<".", ".">>

\* The component loop of posixpath.normpath.
RECURSIVE NormComps(_, _, _, _)
NormComps(comps, k, initial_slashes, new_comps) ==
    IF k > Len(comps) THEN new_comps
    ELSE LET comp == comps[k] IN
         IF comp = <<>> \/ comp = <<".">>
         THEN NormComps(comps, k + 1, initial_slashes, new_comps)
         ELSE IF \/ comp # DotDot
                 \/ (initial_slashes = 0 /\ new_comps = <<>>)
                 \/ (new_comps # <<>> /\ new_comps[Len(new_comps)] = DotDot)
         THEN NormComps(comps, k + 1, initial_slashes, Append(new_comps, comp))
         ELSE IF new_comps # <<>>
         THEN NormComps(comps, k + 1, initial_slashes,
                        SubSeq(new_comps, 1, Len(new_comps) - 1))
         ELSE NormComps(comps, k + 1, initial_slashes, new_comps)

\* os.path.normpath
normpath(path) ==
    LET initial_slashes ==
            IF ~StartsWith(path, <<Slash>>) THEN 0
            ELSE IF StartsWith(path, <<Slash, Slash>>)
                    /\ ~StartsWith(path, <<Slash, Slash, Slash>>) THEN 2
            ELSE 1
        body == JoinOn(NormComps(SplitOn(path, Slash), 1, initial_slashes, <<>>),
                       Slash)
        out == [k \in 1..initial_slashes |-> Slash] \o body
    IN  IF out = <<>> THEN <<".">> ELSE out

\* The test of line 438: whether full_path passes as lying under base_path.
under_base(full_path) == StartsWith(full_path, BasePath)

\* ApplyPatchTool._validate_path: [full, err].
validate_path(path) ==
    IF StartsWith(path, <<Slash>>)
    THEN [full |-> <<>>, err |-> Err("Absolute paths are not allowed: ", path)]
    ELSE With(normpath(path_join(BasePath, path)), LAMBDA full_path :
         IF ~under_base(full_path)
         THEN [full |-> <<>>, err |-> Err("Path traversal detected: ", path)]
         ELSE [full |-> full_path, err |-> NoErr])

\* The directories above a full path.
Ancestors(full) ==
    {<<Slash>>} \cup {SubSeq(full, 1, k - 1) : k \in {j \in 2..Len(full) : full[j] = Slash}}

IsFile(fs, full) == full \in DOMAIN fs

IsDir(fs, full) ==
    \/ full = <<Slash>>
    \/ full = BasePath
    \/ \E f \in DOMAIN fs : full \in Ancestors(f)

\* os.path.exists
path_exists(fs, full) == IsFile(fs, full) \/ IsDir(fs, full)

Logged(w, op, full) == [w EXCEPT !.log = Append(@, [op |-> op, path |-> full])]

\* A write logged with the content written.
Written(w, full, content) ==
    [w EXCEPT !.log = Append(@, [op |-> "write", path |-> full, content |-> content])]

\* An exception of the operating system (OSError): not a DiffError.
OSError(path) == Err("OSError", path)

\* ApplyPatchTool._open_file: [w, text, err].
open_file(w, path) ==
    With(validate_path(path), LAMBDA v :
        LET w1 == Logged(w, "read", v.full)
        IN  IF IsErr(v.err) THEN [w |-> w, text |-> <<>>, err |-> v.err]
            ELSE IF IsFile(w.fs, v.full)
            THEN [w |-> w1, text |-> w.fs[v.full], err |-> NoErr]
            ELSE IF IsDir(w.fs, v.full)
            THEN [w |-> w1, text |-> <<>>, err |-> Err("Error reading file ", path)]
            ELSE [w |-> w1, text |-> <<>>, err |-> Err("File not found: ", path)])

\* ApplyPatchTool._write_file: [w, err].
write_file(w, path, content) ==
    With(validate_path(path), LAMBDA v :
        LET w1 == Written(w, v.full, content)
        IN  IF IsErr(v.err) THEN [w |-> w, err |-> v.err]
            ELSE IF IsDir(w.fs, v.full) \/ \E d \in Ancestors(v.full) : IsFile(w.fs, d)
            THEN [w |-> w1, err |-> OSError(path)]
            ELSE [w |-> [w1 EXCEPT !.fs = [f \in DOMAIN w.fs \cup {v.full} |->
                                              IF f = v.full THEN content ELSE w.fs[f]]],
                  err |-> NoErr])

\* ApplyPatchTool._remove_file: [w, err].
remove_file(w, path) ==
    With(validate_path(path), LAMBDA v :
        LET w1 == Logged(w, "remove", v.full)
        IN  IF IsErr(v.err) THEN [w |-> w, err |-> v.err]
            ELSE IF ~IsFile(w.fs, v.full)
            THEN [w |-> w1, err |-> OSError(path)]
            ELSE [w |-> [w1 EXCEPT !.fs = [f \in DOMAIN w.fs \ {v.full} |-> w.fs[f]]],
                  err |-> NoErr])

\* ApplyPatchTool._load_files over the paths in the order given:
\* [w, orig, err], orig the dict of the texts read.
RECURSIVE LoadLoop(_, _, _, _)
LoadLoop(w, paths, k, orig) ==
    IF k > Len(paths) THEN [w |-> w, orig |-> orig, err |-> NoErr]
    ELSE With(open_file(w, paths[k]), LAMBDA r :
         IF IsErr(r.err) THEN [w |-> r.w, orig |-> orig, err |-> r.err]
         ELSE LoadLoop(r.w, paths, k + 1,
                       [q \in DOMAIN orig \cup {paths[k]} |->
                          IF q = paths[k] THEN r.text ELSE orig[q]]))

EmptyDict == [q \in {} |-> <<>>]

load_files(w, paths) == LoadLoop(w, paths, 1, EmptyDict)

\* ------------------------------------------------------------------------
\* Commit Applier
\* ------------------------------------------------------------------------

\* apply_change removing the old path of a moved file before it writes the
\* new one.
apply_change_remove_first(w, change) ==
    IF change.type = "delete" THEN remove_file(w, change.path)
    ELSE IF change.type = "add" THEN write_file(w, change.path, change.new_content)
    ELSE IF change.move_path # <<>>
    THEN With(remove_file(w, change.path), LAMBDA rm :
              IF IsErr(rm.err) THEN rm
              ELSE write_file(rm.w, change.move_path, change.new_content))
    ELSE write_file(w, change.path, change.new_content)

\* The store calls of one change, in order: [w, err].
apply_change(w, change) ==
    IF change.type = "delete" THEN remove_file(w, change.path)
    ELSE IF change.type = "add" THEN write_file(w, change.path, change.new_content)
    ELSE IF change.move_path # <<>>
    THEN With(write_file(w, change.move_path, change.new_content), LAMBDA wr :
              IF IsErr(wr.err) THEN wr ELSE remove_file(wr.w, change.path))
    ELSE write_file(w, change.path, change.new_content)

\* ApplyLoop undoing, when a change fails, what the changes before it did:
\* the store is handed back as w0 had it.
RECURSIVE ApplyLoopRollback(_, _, _, _)
ApplyLoopRollback(w0, w, changes, k) ==
    IF k > Len(changes) THEN [w |-> w, err |-> NoErr]
    ELSE With(apply_change(w, changes[k]), LAMBDA r :
              IF IsErr(r.err) THEN [w |-> [r.w EXCEPT !.fs = w0.fs], err |-> r.err]
              ELSE ApplyLoopRollback(w0, r.w, changes, k + 1))

apply_commit_rollback(w, changes) == ApplyLoopRollback(w, w, changes, 1)

\* _apply_commit from change k on: [w, err].
RECURSIVE ApplyLoop(_, _, _)
ApplyLoop(w, changes, k) ==
    IF k > Len(changes) THEN [w |-> w, err |-> NoErr]
    ELSE With(apply_change(w, changes[k]), LAMBDA r :
              IF IsErr(r.err) THEN r ELSE ApplyLoop(r.w, changes, k + 1))

apply_commit(w, changes) == ApplyLoop(w, changes, 1)

\* ------------------------------------------------------------------------
\* Patch Engine Facade: the entry points of ApplyPatchTool
\* ------------------------------------------------------------------------

\* What an entry point hands back: an ApplyPatchResult (status "completed"
\* or "failed") or, for _process_v4a_diff, its return ("returned") or the
\* exception it lets through ("raised").  msg is the fixed text of the
\* output, arg the text it names, fuzz the fuzz the parser gave and note
\* what the output says of it after the path.
Result(status, msg, arg, fuzz) ==
    [status |-> status, msg |-> msg, arg |-> arg, fuzz |-> fuzz, note |-> <<>>]

\* str(n) for n >= 0.
RECURSIVE Decimal(_)
Decimal(n) ==
    IF n < 10 THEN <<<<"0", "1", "2", "3", "4", "5", "6", "7", "8", "9">>[n + 1]>>
    ELSE Decimal(n \div 10) \o Decimal(n % 10)

\* Line 633 of _apply_update_diff: what follows "Updated {path}".
FuzzNote(fuzz) ==
    IF fuzz > 0
    THEN <<" ", "(", "f", "u", "z", "z", ":", " ">> \o Decimal(fuzz) \o <<")">>
    ELSE <<>>

\* What the parser left behind in a call: the Patch's actions and its fuzz.
NoPatch == [actions |-> <<>>, fuzz |-> 0, err |-> NoErr]

\* parse_build_apply applying whatever was parsed and built, also when the
\* parser or the builder stopped with an error.
parse_build_apply_eager(w, patch_text, orig) ==
    With(text_to_patch(patch_text, orig), LAMBDA parsed :
    With(patch_to_commit(parsed.actions, orig), LAMBDA commit :
    With(apply_commit(w, commit.changes), LAMBDA applied :
        [w |-> applied.w, patch |-> parsed, changes |-> commit.changes,
         err |-> IF IsErr(parsed.err) THEN parsed.err
                 ELSE IF IsErr(commit.err) THEN commit.err
                 ELSE applied.err])))

\* The two steps after _text_to_patch, which gave parsed or raised its err:
\* _patch_to_commit and _apply_commit.  [w, patch, changes, err].
build_apply(w, parsed, orig) ==
    IF IsErr(parsed.err)
    THEN [w |-> w, patch |-> parsed, changes |-> <<>>, err |-> parsed.err]
    ELSE With(patch_to_commit(parsed.actions, orig), LAMBDA commit :
         IF IsErr(commit.err)
         THEN [w |-> w, patch |-> parsed, changes |-> <<>>, err |-> commit.err]
         ELSE With(apply_commit(w, commit.changes), LAMBDA applied :
              [w |-> applied.w, patch |-> parsed, changes |-> commit.changes,
               err |-> applied.err]))

\* The three steps after loading that _process_v4a_diff and
\* _apply_update_diff share: parse, build the commit, apply it.
\* [w, patch, changes, err].
parse_build_apply(w, patch_text, orig) ==
    build_apply(w, text_to_patch(patch_text, orig), orig)

\* The patch text _apply_update_diff constructs (line 625).
update_text(path, diff) ==
    BeginPatch \o <<NL>> \o UpdateFilePrefix \o path \o <<NL>> \o diff \o <<NL>> \o EndPatch

\* ApplyPatchTool._apply_update_diff: [w, patch, err].
apply_update_diff(w, path, diff) ==
    With(open_file(w, path), LAMBDA cur :
        IF IsErr(cur.err) THEN [w |-> cur.w, patch |-> NoPatch, err |-> cur.err]
        ELSE With(parse_build_apply(cur.w, update_text(path, diff),
                                    [q \in {path} |-> cur.text]),
                  LAMBDA r : [w |-> r.w, patch |-> r.patch, err |-> r.err]))

\* ApplyPatchTool._parse_create_diff
RECURSIVE CreateLoop(_, _, _)
CreateLoop(lines, k, content_lines) ==
    IF k > Len(lines) THEN Join(content_lines)
    ELSE LET line == lines[k] IN
         IF line = <<>> /\ content_lines = <<>>
         THEN CreateLoop(lines, k + 1, content_lines)
         ELSE IF StartsWith(line, <<"+">>) \/ StartsWith(line, <<" ">>)
         THEN CreateLoop(lines, k + 1, Append(content_lines, Tail(line)))
         ELSE IF line = <<>>
         THEN CreateLoop(lines, k + 1, Append(content_lines, <<>>))
         ELSE CreateLoop(lines, k + 1, content_lines)

parse_create_diff(diff) == CreateLoop(Split(Strip(diff)), 1, <<>>)

\* The text _process_v4a_diff works on: diff_text, wrapped in the sentinels
\* when it does not start with the begin sentinel (lines 477-479).
wrapped(diff_text) ==
    IF StartsWith(Strip(diff_text), BeginPatch) THEN diff_text
    ELSE BeginPatch \o <<NL>> \o diff_text \o <<NL>> \o EndPatch

\* How _process_v4a_diff ends, r being what its three steps after loading
\* gave: the DiffError goes on to the caller, or the summary is returned.
processed(r) ==
    IF IsErr(r.err)
    THEN [w |-> r.w, patch |-> r.patch,
          result |-> Result("raised", r.err.kind, r.err.arg, 0)]
    ELSE [w |-> r.w, patch |-> r.patch,
          result |-> Result("returned", "Applied patch to ",
                            [k \in 1..Len(r.changes) |-> r.changes[k].path], 0)]

\* ApplyPatchTool._process_v4a_diff, the paths needed being loaded in the
\* order given (the iteration order of a set): [w, patch, result].
process_v4a_diff(w, diff_text0, order) ==
    With(load_files(w, order), LAMBDA loaded :
        IF IsErr(loaded.err)
        THEN [w |-> loaded.w, patch |-> NoPatch,
              result |-> Result("raised", loaded.err.kind, loaded.err.arg, 0)]
        ELSE processed(parse_build_apply(loaded.w, wrapped(diff_text0), loaded.orig)))

\* Failed with only a DiffError caught: an exception of another kind goes on
\* to the caller.
FailedDiffErrorOnly(e) ==
    IF e.kind \in {"OSError", "Index past the last line"}
    THEN Result("raised", e.kind, e.arg, 0)
    ELSE Result("failed", "Error: " \o e.kind, e.arg, 0)

\* The result the two except clauses of __call__ make of an exception
\* (lines 589-598).
Failed(e) == Result("failed", "Error: " \o e.kind, e.arg, 0)

\* A result of __call__ that left no patch behind.
Out(w, res) == [w |-> w, patch |-> NoPatch, result |-> res]

\* Lines 515-527 of __call__: delete_file, v being what _validate_path gave.
delete_file(w, path, v) ==
    IF IsErr(v.err) THEN Out(w, Failed(v.err))
    ELSE IF ~path_exists(w.fs, v.full)
    THEN Out(Logged(w, "exists", v.full),
             Result("failed", "Error: File not found at path ", path, 0))
    ELSE With(remove_file(Logged(w, "exists", v.full), path), LAMBDA removed :
         IF IsErr(removed.err) THEN Out(removed.w, Failed(removed.err))
         ELSE Out(removed.w, Result("completed", "Deleted ", path, 0)))

\* Lines 530-556 of __call__: create_file.
create_file(w, path, diff, v) ==
    IF diff = <<>>
    THEN Out(w, Result("failed", "Error: Missing diff for create_file operation", <<>>, 0))
    ELSE IF IsErr(v.err) THEN Out(w, Failed(v.err))
    ELSE IF path_exists(w.fs, v.full)
    THEN Out(Logged(w, "exists", v.full),
             Result("failed", "Error: File already exists at path ", path, 0))
    ELSE With(write_file(Logged(w, "exists", v.full), path, parse_create_diff(diff)),
              LAMBDA written :
         IF IsErr(written.err) THEN Out(written.w, Failed(written.err))
         ELSE Out(written.w, Result("completed", "Created ", path, 0)))

\* How the update_file branch of __call__ ends, r being what
\* _apply_update_diff gave or raised (lines 575-580 and 589-598).
updated(path, r) ==
    IF IsErr(r.err)
    THEN [w |-> r.w, patch |-> r.patch, result |-> Failed(r.err)]
    ELSE [w |-> r.w, patch |-> r.patch,
          result |-> [Result("completed", "Updated ", path, r.patch.fuzz)
                         EXCEPT !.note = FuzzNote(r.patch.fuzz)]]

\* Lines 558-584 of __call__: update_file.
update_file(w, path, diff, v) ==
    IF diff = <<>>
    THEN Out(w, Result("failed", "Error: Missing diff for update_file operation", <<>>, 0))
    ELSE IF IsErr(v.err) THEN Out(w, Failed(v.err))
    ELSE IF ~path_exists(w.fs, v.full)
    THEN Out(Logged(w, "exists", v.full),
             Result("failed", "Error: File not found at path ", path, 0))
    ELSE updated(path, apply_update_diff(Logged(w, "exists", v.full), path, diff))

\* ApplyPatchTool.__call__(type, path, diff), a missing or empty argument
\* being "" for type and <<>> for path and diff: [w, patch, result].
call_tool(w, type, path, diff) ==
    IF type = "" THEN Out(w, Result("failed", "Error: Missing operation type", <<>>, 0))
    ELSE IF path = <<>> THEN Out(w, Result("failed", "Error: Missing file path", <<>>, 0))
    ELSE IF type = "delete_file" THEN delete_file(w, path, validate_path(path))
    ELSE IF type = "create_file" THEN create_file(w, path, diff, validate_path(path))
    ELSE IF type = "update_file" THEN update_file(w, path, diff, validate_path(path))
    ELSE Out(w, Result("failed", "Error: Unknown operation type ", <<>>, 0))

\* ------------------------------------------------------------------------
\* The state machine: one call of an entry point on a store
\* ------------------------------------------------------------------------

VARIABLES
    pc,      \* "ready" before the call, "done" after it
    fs,      \* the file store
    fs0,     \* the store as it was before the call
    log,     \* the accesses the call made to the store, in order
    call,    \* the call: [op, path, diff]
    result,  \* what the call handed back
    patch,   \* what the parser produced in the call
    parser   \* the Parser of the call while it is followed section by section

vars == <<pc, fs, fs0, log, call, result, patch, parser>>

NoCall == [op |-> "", path |-> <<>>, diff |-> <<>>]
NoResult == Result("", "", <<>>, 0)

\* A Parser: its lines and current_files, and st = [pindex, fuzz, actions,
\* err] for self.index, self.fuzz, self.patch.actions and the DiffError
\* raised.  at is the index the last iteration of the loop of Parser.parse
\* began at (-1 before the first) and before the actions it began with.
\* Where the loops of parse_update_file and parse_add_file are followed
\* too, loop tells the loop the parser is in ("section", "hunk" or "add"),
\* head the header of the section it is in and inner the state of the
\* inner loop.
NoHead == [kind |-> "", path |-> <<>>, move_path |-> <<>>, pindex |-> 0, err |-> NoErr]
NoInner == [pindex |-> 0, err |-> NoErr]
NewParser(plines, current_files, pindex) ==
    [plines |-> plines, current_files |-> current_files,
     st |-> [pindex |-> pindex, fuzz |-> 0, actions |-> <<>>, err |-> NoErr],
     at |-> -1, before |-> <<>>,
     loop |-> "section", head |-> NoHead, inner |-> NoInner]
NoParser == NewParser(<<>>, EmptyDict, 0)

\* All sequences over S of length lo..hi.
SeqsOf(S, lo, hi) == UNION {[1..n -> S] : n \in lo..hi}

\* The orders a set can be iterated in.
Orders(S) == {o \in [1..Cardinality(S) -> S] : \A i, j \in 1..Cardinality(S) : o[i] = o[j] => i = j}

InitOver(stores) ==
    /\ pc = "ready"
    /\ fs \in stores
    /\ fs0 = fs
    /\ log = <<>>
    /\ call = NoCall
    /\ result = NoResult
    /\ patch = NoPatch
    /\ parser = NoParser

\* __call__(type, path, diff)
Call(type, path, diff) ==
    /\ pc = "ready"
    /\ \E r \in {call_tool([fs |-> fs, log |-> <<>>], type, path, diff)} :
        /\ pc' = "done"
        /\ call' = [op |-> type, path |-> path, diff |-> diff]
        /\ fs' = r.w.fs
        /\ log' = r.w.log
        /\ result' = r.result
        /\ patch' = r.patch
        /\ UNCHANGED <<fs0, parser>>

\* _process_v4a_diff(diff_text)
ProcessDiff(diff_text) ==
    /\ pc = "ready"
    /\ \E order \in Orders(identify_files_needed(wrapped(diff_text))) :
       \E r \in {process_v4a_diff([fs |-> fs, log |-> <<>>], diff_text, order)} :
        /\ pc' = "done"
        /\ call' = [op |-> "process_v4a_diff", path |-> <<>>, diff |-> diff_text]
        /\ fs' = r.w.fs
        /\ log' = r.w.log
        /\ result' = r.result
        /\ patch' = r.patch
        /\ UNCHANGED <<fs0, parser>>

\* _get_updated_file(text, action, path) on the text of f and an Update
\* action with the given chunks
Build(chunks) ==
    /\ pc = "ready"
    /\ \E r \in {get_updated_file(fs[BasePath \o <<Slash, "f">>], chunks)} :
        /\ pc' = "done"
        /\ call' = [op |-> "_get_updated_file", path |-> <<"f">>, diff |-> <<>>,
                    chunks |-> chunks]
        /\ result' = IF IsErr(r.err) THEN Result("raised", r.err.kind, <<>>, 0)
                     ELSE Result("returned", "", r.content, 0)
        /\ UNCHANGED <<fs, fs0, log, patch, parser>>

\* _apply_commit(commit, self._write_file, self._remove_file)
ApplyCommit(changes) ==
    /\ pc = "ready"
    /\ \E r \in {apply_commit([fs |-> fs, log |-> <<>>], changes)} :
        /\ pc' = "done"
        /\ call' = [op |-> "_apply_commit", path |-> <<>>, diff |-> <<>>,
                    changes |-> changes]
        /\ fs' = r.w.fs
        /\ log' = r.w.log
        /\ result' = IF IsErr(r.err) THEN Result("raised", r.err.kind, r.err.arg, 0)
                     ELSE Result("returned", "", <<>>, 0)
        /\ UNCHANGED <<fs0, patch, parser>>

\* ------------------------------------------------------------------------
\* The same calls, the loop of Parser.parse followed one section at a time
\* ------------------------------------------------------------------------

\* The call ended, as r = [w, patch, result] tells.
Ended(type, path, diff, r) ==
    /\ pc' = "done"
    /\ call' = [op |-> type, path |-> path, diff |-> diff]
    /\ fs' = r.w.fs
    /\ log' = r.w.log
    /\ result' = r.result
    /\ patch' = r.patch

\* _text_to_patch made a Parser of the lines (line 360), the call
\* having read what w.log tells.
Parsing(type, path, diff, w, lines, orig) ==
    /\ pc' = "parsing"
    /\ call' = [op |-> type, path |-> path, diff |-> diff]
    /\ log' = w.log
    /\ parser' = NewParser(lines, orig, 1)
    /\ UNCHANGED <<fs, fs0, result, patch>>

\* _process_v4a_diff(diff_text) up to the loop of Parser.parse: the text is
\* wrapped, the files it names are loaded, and _text_to_patch tests the
\* sentinels.
BeginDiff(diff_text) ==
    /\ pc = "ready"
    /\ call' = [op |-> "process_v4a_diff", path |-> <<>>, diff |-> diff_text]
    /\ \E order \in Orders(identify_files_needed(wrapped(diff_text))) :
       \E loaded \in {load_files([fs |-> fs, log |-> <<>>], order)} :
       \E lines \in {Split(Strip(wrapped(diff_text)))} :
          IF IsErr(loaded.err) \/ InvalidPatchText(lines)
          THEN /\ Ended("process_v4a_diff", <<>>, diff_text,
                        process_v4a_diff([fs |-> fs, log |-> <<>>], diff_text, order))
               /\ UNCHANGED <<fs0, parser>>
          ELSE Parsing("process_v4a_diff", <<>>, diff_text, loaded.w, lines, loaded.orig)

\* __call__("update_file", path, diff) up to the loop of Parser.parse: the
\* checks of __call__, then _apply_update_diff reads the file and
\* _text_to_patch tests the sentinels of the text made of the diff.
BeginUpdate(path, diff) ==
    /\ pc = "ready"
    /\ call' = [op |-> "update_file", path |-> path, diff |-> diff]
    /\ \E v \in {validate_path(path)} :
       \E cur \in {open_file(Logged([fs |-> fs, log |-> <<>>], "exists", v.full), path)} :
       \E lines \in {Split(Strip(update_text(path, diff)))} :
          IF \/ path = <<>> \/ diff = <<>> \/ IsErr(v.err) \/ ~path_exists(fs, v.full)
             \/ IsErr(cur.err) \/ InvalidPatchText(lines)
          THEN /\ Ended("update_file", path, diff,
                        call_tool([fs |-> fs, log |-> <<>>], "update_file", path, diff))
               /\ UNCHANGED <<fs0, parser>>
          ELSE Parsing("update_file", path, diff, cur.w, lines, [q \in {path} |-> cur.text])

\* One iteration of the while loop of Parser.parse (lines 110-140).
ParseSection ==
    /\ pc = "parsing" /\ parser.loop = "section"
    /\ ~IsErr(parser.st.err)
    /\ ~is_done(parser.plines, parser.st.pindex, {EndPatch})
    /\ parser' = [parser EXCEPT !.st = ParseStep(parser.plines, parser.current_files, @),
                                !.at = parser.st.pindex,
                                !.before = parser.st.actions]
    /\ UNCHANGED <<pc, fs, fs0, log, call, result, patch>>

\* The loop of Parser.parse is left, by a DiffError or at its end: the rest
\* of Parser.parse and of _text_to_patch, then _patch_to_commit and
\* _apply_commit, and what the entry point makes of it.
EndParse ==
    /\ pc = "parsing" /\ parser.loop = "section"
    /\ IsErr(parser.st.err) \/ is_done(parser.plines, parser.st.pindex, {EndPatch})
    /\ \E p \in {ParseEnd(parser.plines, parser.st)} :
       \E r \in {build_apply([fs |-> fs, log |-> log],
                             [actions |-> p.actions, fuzz |-> p.fuzz, err |-> p.err],
                             parser.current_files)} :
          Ended(call.op, call.path, call.diff,
                IF call.op = "update_file"
                THEN updated(call.path, [w |-> r.w, patch |-> r.patch, err |-> r.err])
                ELSE processed(r))
    /\ UNCHANGED <<fs0, parser>>

\* ------------------------------------------------------------------------
\* The same calls, the loops of parse_update_file and parse_add_file
\* followed one iteration at a time as well
\* ------------------------------------------------------------------------

\* An iteration of the loop of Parser.parse up to the body of its section:
\* the header is read and tested (lines 111-117, 124-129, 133-136, 140).  A
\* Delete section ends here, an Update or Add section enters its loop.
EnterSection ==
    /\ pc = "parsing" /\ parser.loop = "section"
    /\ ~IsErr(parser.st.err)
    /\ ~is_done(parser.plines, parser.st.pindex, {EndPatch})
    /\ \E head \in {SectionHead(parser.plines, parser.current_files, parser.st)} :
         parser' = [parser EXCEPT
             !.at = parser.st.pindex,
             !.before = parser.st.actions,
             !.head = head,
             !.loop = IF head.kind = "update" THEN "hunk"
                      ELSE IF head.kind = "add" THEN "add" ELSE "section",
             !.inner = IF head.kind = "update" THEN NewUpdate(head.pindex, parser.st.fuzz)
                       ELSE IF head.kind = "add" THEN NewAdd(head.pindex) ELSE NoInner,
             !.st = IF head.kind = "delete" THEN DeleteDone(@, head)
                    ELSE IF head.kind = "" THEN [@ EXCEPT !.err = head.err] ELSE @]
    /\ UNCHANGED <<pc, fs, fs0, log, call, result, patch>>

\* The lines of the file the Update section the parser is in works on.
SectionFileLines == Split(parser.current_files[parser.head.path])

\* One iteration of the while loop of parse_update_file (lines 151-202).
ParseHunk ==
    /\ pc = "parsing" /\ parser.loop = "hunk"
    /\ ~IsErr(parser.inner.err)
    /\ ~is_done(parser.plines, parser.inner.pindex, UpdateStops)
    /\ parser' = [parser EXCEPT !.inner = UpdateStep(parser.plines, SectionFileLines, @)]
    /\ UNCHANGED <<pc, fs, fs0, log, call, result, patch>>

\* The loop of parse_update_file is left, by a DiffError or at its end, and
\* Parser.parse stores the action (lines 119-122, 204).
EndUpdate ==
    /\ pc = "parsing" /\ parser.loop = "hunk"
    /\ IsErr(parser.inner.err) \/ is_done(parser.plines, parser.inner.pindex, UpdateStops)
    /\ parser' = [parser EXCEPT !.loop = "section",
                                !.st = UpdateDone(@, parser.head, parser.inner)]
    /\ UNCHANGED <<pc, fs, fs0, log, call, result, patch>>

\* One iteration of the while loop of parse_add_file (lines 208-215).
ReadAddLine ==
    /\ pc = "parsing" /\ parser.loop = "add"
    /\ ~IsErr(parser.inner.err)
    /\ ~is_done(parser.plines, parser.inner.pindex, AddStops)
    /\ parser' = [parser EXCEPT !.inner = AddStep(parser.plines, @)]
    /\ UNCHANGED <<pc, fs, fs0, log, call, result, patch>>

\* The loop of parse_add_file is left and Parser.parse stores the action
\* (lines 137-138, 216).
EndAdd ==
    /\ pc = "parsing" /\ parser.loop = "add"
    /\ IsErr(parser.inner.err) \/ is_done(parser.plines, parser.inner.pindex, AddStops)
    /\ parser' = [parser EXCEPT !.loop = "section",
                                !.st = AddDone(@, parser.head, AddEnd(parser.inner))]
    /\ UNCHANGED <<pc, fs, fs0, log, call, result, patch>>

\* ------------------------------------------------------------------------
\* Inputs
\* ------------------------------------------------------------------------

\* The path of the file the update calls work on, and its full path.
PathF == <<"f">>
FullF == BasePath \o <<Slash>> \o PathF

\* The store holding only f, with the given lines.
StoreOfF(lines) == [q \in {FullF} |-> Join(lines)]

Ctx(t) == <<" ">> \o t
Del(t) == <<"-">> \o t
Ins(t) == <<"+">> \o t

\* Update sections of several hunks: files over the lines a and b, diffs
\* over context, removed and inserted lines, the bare anchor and the
\* end-of-file marker.
MaxHunkFileLines == 2
MaxHunkDiffLines == 4

HunkTexts == {<<"a">>, <<"b">>}
HunkStores == {StoreOfF(ls) : ls \in SeqsOf(HunkTexts, 1, MaxHunkFileLines)}
HunkLines == {Ctx(<<"a">>), Del(<<"a">>), Ctx(<<"b">>), Ins(<<"x">>), AtAt, EndOfFile}
HunkDiffs == {Join(ls) : ls \in SeqsOf(HunkLines, 1, MaxHunkDiffLines)}

InitHunks == InitOver(HunkStores)
NextHunks == pc = "ready" /\ \E diff \in HunkDiffs : Call("update_file", PathF, diff)
SpecHunks == InitHunks /\ [][NextHunks]_vars

\* One hunk against a file whose lines differ from it in whitespace: files
\* over "a", "a " and "a b", diffs over context "a", " a" and "ab", the
\* removed line "a" and the inserted line "x".
MaxTierFileLines == 2
MaxTierDiffLines == 2

TierTexts == {<<"a">>, <<"a", " ">>, <<"a", " ", "b">>}
TierStores == {StoreOfF(ls) : ls \in SeqsOf(TierTexts, 1, MaxTierFileLines)}
TierLines == {Ctx(<<"a">>), Ctx(<<" ", "a">>), Ctx(<<"a", "b">>), Del(<<"a">>), Ins(<<"x">>)}
TierDiffs == {Join(ls) : ls \in SeqsOf(TierLines, 1, MaxTierDiffLines)}

InitTier == InitOver(TierStores)
NextTier == pc = "ready" /\ \E diff \in TierDiffs : Call("update_file", PathF, diff)
SpecTier == InitTier /\ [][NextTier]_vars

\* The hunks of the tiers, each also closed by the end-of-file marker.
TailDiffs == TierDiffs \cup {d \o <<NL>> \o EndOfFile : d \in TierDiffs}

NextTail == pc = "ready" /\ \E diff \in TailDiffs : Call("update_file", PathF, diff)
SpecTail == InitTier /\ [][NextTail]_vars

\* Patch documents of several sections: the file f holding "a" or "b",
\* documents over the three section headers, a removed and an inserted line,
\* the bare anchor and the end-of-file marker, given to _process_v4a_diff or
\* as the diff of an update_file call on f.
MaxDocLines == 4

PathG == <<"g">>
DocStores == {StoreOfF(<<t>>) : t \in HunkTexts}
DocLines == {AddFilePrefix \o PathG, UpdateFilePrefix \o PathF, DeleteFilePrefix \o PathF,
             Del(<<"a">>), Ins(<<"x">>), AtAt, EndOfFile}
Docs == {Join(ls) : ls \in SeqsOf(DocLines, 1, MaxDocLines)}

Init == InitOver(DocStores)
ProcessDoc == pc = "ready" /\ \E doc \in Docs : ProcessDiff(doc)
UpdateWithDoc == pc = "ready" /\ \E doc \in Docs : Call("update_file", PathF, doc)
Next == ProcessDoc \/ UpdateWithDoc
Spec == Init /\ [][Next]_vars

\* The Commit Builder on arbitrary chunk lists: up to MaxChunks chunks whose
\* anchors run from -1 to one past the number of lines of the file, removing
\* up to two lines and inserting up to one.
MaxBuildFileLines == 2
MaxChunks == 2

BuildStores == {StoreOfF(ls) : ls \in SeqsOf(HunkTexts, 1, MaxBuildFileLines)}
BuildChunks ==
    {Chunk(i, d, a) : i \in -1..(MaxBuildFileLines + 1),
                      d \in {<<>>, <<<<"a">>>>, <<<<"a">>, <<"b">>>>},
                      a \in {<<>>, <<<<"x">>>>}}

InitBuilder == InitOver(BuildStores)
NextBuilder == pc = "ready" /\ \E chunks \in SeqsOf(BuildChunks, 0, MaxChunks) : Build(chunks)
SpecBuilder == InitBuilder /\ [][NextBuilder]_vars

\* Paths: every way of joining up to MaxPathParts parts with "/", a part
\* being a name, ".", ".." or empty (an empty first part makes the path
\* absolute).  The store holds f under the base directory /w and a file f
\* in the sibling directory /w2.
MaxPathParts == 3

PathParts == {<<>>, <<".">>, DotDot, <<"w">>, <<"w", "2">>, <<"f">>}
PathInputs == {JoinOn(ps, Slash) : ps \in SeqsOf(PathParts, 1, MaxPathParts)}

OutsideF == <<Slash, "w", "2", Slash, "f">>
PathStores == {[q \in {FullF, OutsideF} |-> <<"a">>]}

Lines2(l1, l2) == l1 \o <<NL>> \o l2
Lines3(l1, l2, l3) == l1 \o <<NL>> \o l2 \o <<NL>> \o l3
Lines4(l1, l2, l3, l4) == l1 \o <<NL>> \o l2 \o <<NL>> \o l3 \o <<NL>> \o l4

\* A diff that fits the one-line file "a": keep a, insert x after it.
KeepAInsX == Lines2(Ctx(<<"a">>), Ins(<<"x">>))

InitPath == InitOver(PathStores)

CreateAt == pc = "ready" /\ \E path \in PathInputs : Call("create_file", path, Ins(<<"x">>))
DeleteAt == pc = "ready" /\ \E path \in PathInputs : Call("delete_file", path, <<>>)
UpdateAt == pc = "ready" /\ \E path \in PathInputs : Call("update_file", path, KeepAInsX)
MoveTo ==
    pc = "ready" /\ \E path \in PathInputs :
        Call("update_file", PathF, Lines2(MoveToPrefix \o path, KeepAInsX))
DocAddAt ==
    pc = "ready" /\ \E path \in PathInputs :
        ProcessDiff(Lines2(AddFilePrefix \o path, Ins(<<"x">>)))
DocDeleteAt ==
    pc = "ready" /\ \E path \in PathInputs : ProcessDiff(DeleteFilePrefix \o path)
DocUpdateAt ==
    pc = "ready" /\ \E path \in PathInputs :
        ProcessDiff(Lines2(UpdateFilePrefix \o path, KeepAInsX))
DocMoveTo ==
    pc = "ready" /\ \E path \in PathInputs :
        ProcessDiff(Lines3(UpdateFilePrefix \o PathF, MoveToPrefix \o path, KeepAInsX))

NextPath ==
    \/ CreateAt
    \/ DeleteAt
    \/ UpdateAt
    \/ MoveTo
    \/ DocAddAt
    \/ DocDeleteAt
    \/ DocUpdateAt
    \/ DocMoveTo

SpecPath == InitPath /\ [][NextPath]_vars

\* Documents of a few lines: section headers of the three kinds, one of
\* them of a path that is not loaded, lines that are no header, and the
\* sentinels.
MaxParseLines == 3

RenameFileX == Stars \o <<" ", "R", "e", "n", "a", "m", "e", " ", "F", "i", "l", "e", ":", " ", "x">>
EndPatches == EndPatch \o <<"e", "s">>
ParseLines == {UpdateFilePrefix \o PathF, DeleteFilePrefix \o PathF, AddFilePrefix \o PathG,
               UpdateFilePrefix \o PathG, RenameFileX, EndPatches, Ins(<<"x">>),
               BeginPatch, EndPatch}
ParseDocs == {Join(ls) : ls \in SeqsOf(ParseLines, 1, MaxParseLines)}

InitParse == InitOver({StoreOfF(<<<<"a">>>>)})
BeginDoc == pc = "ready" /\ \E doc \in ParseDocs : BeginDiff(doc)
BeginUpdateWithDoc == pc = "ready" /\ \E doc \in ParseDocs : BeginUpdate(PathF, doc)
NextParse == BeginDoc \/ BeginUpdateWithDoc \/ ParseSection \/ EndParse
SpecParse == InitParse /\ [][NextParse]_vars

\* Hunks that open with an anchor line, on files in which the anchor text
\* occurs exactly, with leading whitespace, or not at all.
MaxAnchorFileLines == 3
MaxAnchorDiffLines == 3

AnchorTexts == {<<"a">>, <<" ", "a">>, <<"b">>}
AnchorStores == {StoreOfF(ls) : ls \in SeqsOf(AnchorTexts, 1, MaxAnchorFileLines)}
AnchorLines == {Ctx(<<"a">>), Del(<<"b">>), AtAtSpace \o <<"a">>, AtAtSpace \o <<"c">>}
AnchorDiffs == {Join(ls) : ls \in SeqsOf(AnchorLines, 1, MaxAnchorDiffLines)}

InitAnchor == InitOver(AnchorStores)
NextAnchor == pc = "ready" /\ \E diff \in AnchorDiffs : Call("update_file", PathF, diff)
SpecAnchor == InitAnchor /\ [][NextAnchor]_vars

\* Documents followed through every loop of the parser: the three section
\* headers, context, inserted and other body lines, the bare anchor, the
\* end-of-file marker and the line "***", given to _process_v4a_diff or as
\* the diff of an update_file call on f.
MaxLoopLines == 3

LoopLines == {UpdateFilePrefix \o PathF, DeleteFilePrefix \o PathF, AddFilePrefix \o PathG,
              Ctx(<<"a">>), Ins(<<"x">>), <<"x">>, AtAt, EndOfFile, Stars}
LoopDocs == {Join(ls) : ls \in SeqsOf(LoopLines, 1, MaxLoopLines)}

InitLoops == InitOver({StoreOfF(<<<<"a">>>>)})
\* The calls made of the documents.
LoopDocCalls ==
    {[op |-> "process_v4a_diff", path |-> <<>>, diff |-> doc] : doc \in LoopDocs}
LoopUpdateCalls ==
    {[op |-> "update_file", path |-> PathF, diff |-> doc] : doc \in LoopDocs}
BeginLoopDoc == pc = "ready" /\ call' \in LoopDocCalls /\ BeginDiff(call'.diff)
BeginLoopUpdate == pc = "ready" /\ call' \in LoopUpdateCalls /\ BeginUpdate(PathF, call'.diff)
NextLoops ==
    \/ BeginLoopDoc
    \/ BeginLoopUpdate
    \/ EnterSection
    \/ ParseHunk
    \/ EndUpdate
    \/ ReadAddLine
    \/ EndAdd
    \/ EndParse
SpecLoops == InitLoops /\ [][NextLoops]_vars

\* The same, every call and every loop going on while it can: the code is
\* one thread of control that nothing suspends.
FairSpecLoops == SpecLoops /\ WF_vars(NextLoops)

\* Update sections whose hunks resolve at a cost, followed one hunk at a
\* time: files over "a", " a", "a " and "b", diffs over the context and
\* the removed line a, the anchor line of a and the end-of-file marker.
MaxFuzzFileLines == 2
MaxFuzzDiffLines == 3

FuzzTexts == {<<"a">>, <<" ", "a">>, <<"a", " ">>, <<"b">>}
FuzzStores == {StoreOfF(ls) : ls \in SeqsOf(FuzzTexts, 1, MaxFuzzFileLines)}
FuzzLines == {Ctx(<<"a">>), Del(<<"a">>), AtAtSpace \o <<"a">>, EndOfFile}
FuzzDiffs == {Join(ls) : ls \in SeqsOf(FuzzLines, 1, MaxFuzzDiffLines)}

InitFuzz == InitOver(FuzzStores)
BeginFuzzUpdate == pc = "ready" /\ \E diff \in FuzzDiffs : BeginUpdate(PathF, diff)
NextFuzz ==
    \/ BeginFuzzUpdate
    \/ EnterSection
    \/ ParseHunk
    \/ EndUpdate
    \/ EndParse
SpecFuzz == InitFuzz /\ [][NextFuzz]_vars

\* One hunk of body lines of every kind: files over the line a and the
\* blank line, diffs over context, removed and inserted lines, the empty
\* line, a line that opens with a letter and one that opens with the text
\* of the end sentinel.
MaxBodyFileLines == 2
MaxBodyDiffLines == 3

BodyTexts == {<<"a">>, <<>>}
BodyStores == {StoreOfF(ls) : ls \in SeqsOf(BodyTexts, 1, MaxBodyFileLines)}
BodyLines == {Ctx(<<"a">>), Del(<<"a">>), Del(<<>>), Ins(<<"x">>), <<>>, <<"x">>, EndPatches}
BodyDiffs == {Join(ls) : ls \in SeqsOf(BodyLines, 1, MaxBodyDiffLines)}

InitBody == InitOver(BodyStores)
NextBody == pc = "ready" /\ \E diff \in BodyDiffs : Call("update_file", PathF, diff)
SpecBody == InitBody /\ [][NextBody]_vars

\* Add File sections: the header of g followed by body lines that open
\* with '+' or not, the empty line and a line that opens with the text of
\* the end sentinel among them, and by the header of a further section.
MaxAddLines == 3

AddBodyLines == {Ins(<<"x">>), Ins(<<>>), <<>>, Ctx(<<"a">>), EndPatches,
                 DeleteFilePrefix \o PathF}
AddDocs == {Join(<<AddFilePrefix \o PathG>> \o ls) : ls \in SeqsOf(AddBodyLines, 0, MaxAddLines)}

InitAdd == InitOver({StoreOfF(<<<<"a">>>>)})
BeginAddDoc == pc = "ready" /\ \E doc \in AddDocs : BeginDiff(doc)
NextAdd == BeginAddDoc \/ ParseSection \/ EndParse
SpecAdd == InitAdd /\ [][NextAdd]_vars

\* Commits handed to the Commit Applier: up to MaxCommitChanges changes of
\* distinct paths, on a store with the files f and h and the directory d.
\* A Delete or an Update is of f or h, an Update moving to g, to d, to f
\* or nowhere; an Add is of g, of d or of a path outside base_path.
MaxCommitChanges == 2

PathH == <<"h">>
PathD == <<"d">>
CommitStores ==
    {[q \in {FullF, BasePath \o <<Slash>> \o PathH,
             BasePath \o <<Slash>> \o PathD \o <<Slash, "k">>} |-> <<"a">>]}
CommitChanges ==
    {FileChange(p, "delete", <<"a">>, <<>>, <<>>) : p \in {PathF, PathH}}
    \cup {FileChange(p, "add", <<>>, <<"x">>, <<>>) : p \in {PathG, PathD, DotDot \o <<Slash, "x">>}}
    \cup {FileChange(p, "update", <<"a">>, <<"a", NL, "x">>, m) :
              p \in {PathF, PathH}, m \in {<<>>, PathG, PathD, PathF}}
Commits ==
    {c \in SeqsOf(CommitChanges, 0, MaxCommitChanges) :
        \A i, j \in 1..Len(c) : c[i].path = c[j].path => i = j}

InitCommit == InitOver(CommitStores)
NextCommit == pc = "ready" /\ \E changes \in Commits : ApplyCommit(changes)
SpecCommit == InitCommit /\ [][NextCommit]_vars

\* Calls of __call__ of every kind: the operation type missing, unknown or
\* one of the three, the path missing, plain, a directory, outside
\* base_path or absolute, and the diff missing or one that applies, that
\* fails in the parser, in the resolver, in the builder or in the store,
\* or that fails in the store after a first change was applied.
CallTypes == {"", "delete_file", "create_file", "update_file", "rename_file"}
CallPaths == {<<>>, PathF, PathG, PathD, DotDot \o <<Slash, "x">>, <<Slash, "f">>}
CallDiffs ==
    {<<>>, Ins(<<"x">>), KeepAInsX, <<"x">>, Ctx(<<"b">>),
     Lines2(MoveToPrefix \o PathG, KeepAInsX),
     Lines2(MoveToPrefix \o PathD, KeepAInsX),
     Lines4(Del(<<"a">>), AtAt, Del(<<"a">>), EndOfFile),
     Lines4(Ctx(<<"a">>), Ins(<<"x">>), AddFilePrefix \o PathG, Ins(<<"y">>)),
     Lines4(Ctx(<<"a">>), Ins(<<"x">>), AddFilePrefix \o DotDot \o <<Slash, "x">>, Ins(<<"y">>))}

InitCall == InitOver(CommitStores)
NextCall ==
    pc = "ready" /\ \E type \in CallTypes, path \in CallPaths, diff \in CallDiffs :
        Call(type, path, diff)
SpecCall == InitCall /\ [][NextCall]_vars

\* A full path lies inside the base directory: it is the base directory or
\* continues it with a "/" and further parts.
Inside(full) == full = BasePath \/ StartsWith(full, BasePath \o <<Slash>>)

StoreOps == {"read", "write", "remove"}

\* C1: every read, write or remove of a call targets a location inside
\* base_path, whatever path strings the call is given.
C1_Confined ==
    \A k \in 1..Len(log) : log[k].op \in StoreOps => Inside(log[k].path)

\* ------------------------------------------------------------------------
\* Resolve-then-commit
\* ------------------------------------------------------------------------

\* The failures of the parser (context resolution included) and of the
\* builder, as the entry points report them.
ParseErrors ==
    {"Invalid Line: ", "Invalid Line:\n", "Invalid Context ", "Invalid EOF Context ",
     "Nothing in this section", "Unknown Line: ", "Invalid Add File Line: ",
     "Update File Error: Duplicate Path: ", "Update File Error: Missing File: ",
     "Delete File Error: Duplicate Path: ", "Delete File Error: Missing File: ",
     "Add File Error: Duplicate Path: ", "Invalid patch text", "Missing End Patch",
     "Index past the last line"}

OutOfOrderChunk ==
    {"_get_updated_file: chunk.orig_index > len(lines)",
     "_get_updated_file: orig_index > chunk.orig_index"}

FailedBeforeApply ==
    /\ pc = "done"
    /\ \/ result.status = "raised" /\ result.msg \in ParseErrors \cup OutOfOrderChunk
       \/ /\ result.status = "failed"
          /\ \E e \in ParseErrors \cup OutOfOrderChunk : result.msg = "Error: " \o e

\* C2: when parsing, context resolution or commit building fails for a
\* section of a patch document, the call writes and removes nothing and the
\* store is as it was.
C2_ResolveThenCommit ==
    FailedBeforeApply =>
        /\ fs = fs0
        /\ \A k \in 1..Len(log) : log[k].op \notin {"write", "remove"}

\* A document failed in a section that follows an Add File section the
\* parser had accepted.
C2_Witness ==
    /\ FailedBeforeApply
    /\ \E k \in 1..Len(patch.actions) : patch.actions[k].type = "add"

\* ------------------------------------------------------------------------
\* Hunks replayed over the original lines
\* ------------------------------------------------------------------------

\* original[i, j): the lines at the 0-based offsets i .. j-1 that exist.
HalfOpen(original, i, j) ==
    [n \in 1..(Min(j, Len(original)) - i) |-> original[i + n]]

RECURSIVE Flatten(_)
Flatten(seqs) == IF seqs = <<>> THEN <<>> ELSE Head(seqs) \o Flatten(Tail(seqs))

\* The marker of a hunk line (an empty line counts as context) and its text.
HunkMark(l) == IF l = <<>> THEN " " ELSE l[1]
HunkText(l) == IF l = <<>> THEN <<>> ELSE Tail(l)
InWindow(l) == HunkMark(l) \in {" ", "-"}

\* The window of a hunk body: its context and '-' lines, in order.
WindowOf(body) ==
    [k \in 1..Len(SelectSeq(body, InWindow)) |-> HunkText(SelectSeq(body, InWindow)[k])]

\* The lines a hunk body leaves where its window lies at offset at: a
\* context line keeps the line of the file, a '-' line drops it, a '+' line
\* is inserted.
RECURSIVE WalkBody(_, _, _, _, _)
WalkBody(original, body, k, at, out) ==
    IF k > Len(body) THEN out
    ELSE IF HunkMark(body[k]) = "+"
    THEN WalkBody(original, body, k + 1, at, Append(out, HunkText(body[k])))
    ELSE IF HunkMark(body[k]) = "-"
    THEN WalkBody(original, body, k + 1, at + 1, out)
    ELSE WalkBody(original, body, k + 1, at + 1, Append(out, original[at + 1]))

\* The original lines with the window of every hunk, where it resolved,
\* replaced by what the hunk leaves, the lines between the windows kept.
RECURSIVE HunkReplay(_, _, _, _, _)
HunkReplay(original, hunks, k, cur, out) ==
    IF k > Len(hunks) THEN out \o HalfOpen(original, cur, Len(original))
    ELSE HunkReplay(original, hunks, k + 1,
                    hunks[k].new_index + Len(hunks[k].window),
                    out \o HalfOpen(original, cur, hunks[k].new_index)
                        \o WalkBody(original, hunks[k].body, 1, hunks[k].new_index, <<>>))

\* The call was an update of f whose section the parser accepted.
UpdatedF ==
    /\ pc = "done" /\ call.op = "update_file" /\ call.path = PathF
    /\ ~IsErr(patch.err)
    /\ Len(patch.actions) = 1 /\ patch.actions[1].type = "update"

HunksOfF == patch.actions[1].hunks
ChunksOfF == patch.actions[1].chunks
OriginalF == Split(fs0[FullF])

\* C3: when every hunk of an Update section resolves by exact match, the
\* new content is the original lines with each hunk's window replaced by
\* the hunk's context and '+' lines, everything else kept in order.
C3_ExactReplay ==
    (/\ UpdatedF /\ result.status = "completed"
     /\ \A k \in 1..Len(HunksOfF) : HunksOfF[k].fuzz = 0 /\ HunksOfF[k].anchor_fuzz = 0)
    => fs[FullF] = Join(HunkReplay(OriginalF, HunksOfF, 1, 0, <<>>))

\* ------------------------------------------------------------------------
\* The Commit Builder against the reference replay
\* ------------------------------------------------------------------------

\* The cursor before chunk k: 0, then the end of the chunk before it.
CursorAt(chunks, k) ==
    IF k = 1 THEN 0
    ELSE chunks[k - 1].orig_index + Len(chunks[k - 1].del_lines)

OutOfOrder(original, chunks) ==
    \E k \in 1..Len(chunks) :
        \/ chunks[k].orig_index < CursorAt(chunks, k)
        \/ chunks[k].orig_index > Len(original)

ReferenceReplay(original, chunks) ==
    Flatten([k \in 1..Len(chunks) |->
                HalfOpen(original, CursorAt(chunks, k), chunks[k].orig_index)
                \o chunks[k].ins_lines])
    \o HalfOpen(original, CursorAt(chunks, Len(chunks) + 1), Len(original))

\* C4: for every list of chunks the Commit Builder fails with OutOfOrderChunk
\* exactly when some chunk's anchor is below the cursor or above the length
\* of the original, and otherwise returns the reference replay joined with
\* newlines.
C4_BuilderIsReplay ==
    (pc = "done" /\ call.op = "_get_updated_file") =>
        IF OutOfOrder(Split(fs0[FullF]), call.chunks)
        THEN result.status = "raised" /\ result.msg \in OutOfOrderChunk
        ELSE /\ result.status = "returned"
             /\ result.arg = Join(ReferenceReplay(Split(fs0[FullF]), call.chunks))

\* A second chunk anchored before the end of the first one was refused.
C4_Witness ==
    /\ pc = "done" /\ call.op = "_get_updated_file"
    /\ Len(call.chunks) = 2
    /\ call.chunks[1].orig_index >= 0
    /\ call.chunks[1].orig_index <= Len(Split(fs0[FullF]))
    /\ call.chunks[2].orig_index <= Len(Split(fs0[FullF]))
    /\ call.chunks[2].orig_index < call.chunks[1].orig_index + Len(call.chunks[1].del_lines)
    /\ result.status = "raised"

\* ------------------------------------------------------------------------
\* Line counts and context-only hunks
\* ------------------------------------------------------------------------

\* What the Commit Builder makes of the Update action of the call.
BuiltF == get_updated_file(fs0[FullF], ChunksOfF)

\* C5: when the Commit Builder completes an Update action, the output has
\* as many lines as the original, less the removed lines of the chunks,
\* plus their inserted lines.
C5_LineCount ==
    (UpdatedF /\ ~IsErr(BuiltF.err)) =>
        Len(BuiltF.lines) =
            Len(OriginalF)
            - Len(Flatten([k \in 1..Len(ChunksOfF) |-> ChunksOfF[k].del_lines]))
            + Len(Flatten([k \in 1..Len(ChunksOfF) |-> ChunksOfF[k].ins_lines]))

\* An action of two chunks that removes and inserts lines was built.
C5_Witness ==
    /\ UpdatedF /\ ~IsErr(BuiltF.err)
    /\ Len(ChunksOfF) = 2
    /\ \E k \in 1..2 : ChunksOfF[k].del_lines # <<>>
    /\ \E k \in 1..2 : ChunksOfF[k].ins_lines # <<>>
    /\ result.status = "completed"

ContextOnly(hunks) ==
    \A k \in 1..Len(hunks) : \A n \in 1..Len(hunks[k].body) : HunkMark(hunks[k].body[n]) = " "

\* C6: an Update section whose hunks hold context lines only, and whose
\* windows resolve, leaves the content as it was.
C6_ContextOnly ==
    (UpdatedF /\ result.status = "completed" /\ ContextOnly(HunksOfF)) => fs = fs0

\* Two hunks of context lines resolved, the first one not at the end of
\* the file.
C6_Witness ==
    /\ UpdatedF /\ result.status = "completed" /\ ContextOnly(HunksOfF)
    /\ Len(HunksOfF) = 2
    /\ HunksOfF[1].window # <<>> /\ HunksOfF[2].window # <<>>
    /\ Len(OriginalF) = 2

\* ------------------------------------------------------------------------
\* The tiers of the Context Resolver
\* ------------------------------------------------------------------------

IdLine(l) == l

\* A line without its whitespace.
Squash(l) == SelectSeq(l, LAMBDA c : ~IsSpace(c))

\* The offsets from the offset from on at which the window equals the lines
\* of the file once N is applied to every line of both.
OffsetsFrom(original, window, from, N(_)) ==
    {i \in from..(Len(original) - Len(window)) :
        \A n \in 1..Len(window) : N(original[i + n]) = N(window[n])}

\* The diff of the call as one hunk: its lines without a closing
\* end-of-file marker, whether it has one, and whether it is one hunk.
DiffLines == Split(call.diff)
DiffEof ==
    \/ call.diff = EndOfFile
    \/ /\ Len(call.diff) > Len(EndOfFile)
       /\ SubSeq(call.diff, Len(call.diff) - Len(EndOfFile), Len(call.diff))
              = <<NL>> \o EndOfFile
DiffBody == IF DiffEof THEN SubSeq(DiffLines, 1, Len(DiffLines) - 1) ELSE DiffLines
OneHunk ==
    /\ pc = "done" /\ call.op = "update_file" /\ call.path = PathF
    /\ DiffBody # <<>>
    /\ \A n \in 1..Len(DiffBody) : HunkMark(DiffBody[n]) \in {" ", "-", "+"}

\* The content after the hunk of the call was applied at offset at.
HunkAppliedAt(at) ==
    Join(HalfOpen(OriginalF, 0, at)
         \o WalkBody(OriginalF, DiffBody, 1, at, <<>>)
         \o HalfOpen(OriginalF, at + Len(WindowOf(DiffBody)), Len(OriginalF)))

TrailingOnly ==
    /\ OneHunk /\ ~DiffEof /\ WindowOf(DiffBody) # <<>>
    /\ OffsetsFrom(OriginalF, WindowOf(DiffBody), 0, IdLine) = {}
    /\ OffsetsFrom(OriginalF, WindowOf(DiffBody), 0, RStrip) # {}

\* C7: a window that differs from the file only in trailing whitespace
\* resolves at fuzz 1, and the content is the file with the '-' lines
\* dropped at the first such offset, the '+' lines inserted and every other
\* line unchanged.
C7_TrailingWhitespace ==
    TrailingOnly =>
        /\ result.status = "completed"
        /\ result.fuzz = 1
        /\ fs[FullF] = HunkAppliedAt(SetMin(OffsetsFrom(OriginalF, WindowOf(DiffBody),
                                                         0, RStrip)))

\* A hunk that removes a line and inserts one was applied to a line that
\* has trailing whitespace the hunk does not have.
C7_Witness ==
    /\ TrailingOnly
    /\ \E n \in 1..Len(DiffBody) : HunkMark(DiffBody[n]) = "-"
    /\ \E n \in 1..Len(DiffBody) : HunkMark(DiffBody[n]) = "+"
    /\ result.status = "completed"
    /\ fs # fs0

NoCloserMatch ==
    /\ OneHunk /\ ~DiffEof /\ WindowOf(DiffBody) # <<>>
    /\ OffsetsFrom(OriginalF, WindowOf(DiffBody), 0, IdLine) = {}
    /\ OffsetsFrom(OriginalF, WindowOf(DiffBody), 0, RStrip) = {}

\* C8 as stated: a window that differs from the file only in interior or
\* leading whitespace resolves, at fuzz 100.
C8_InteriorOrLeading ==
    (NoCloserMatch /\ OffsetsFrom(OriginalF, WindowOf(DiffBody), 0, Squash) # {})
    => result.status = "completed" /\ result.fuzz = 100

\* C8 amended: a window that differs from the file only in leading
\* whitespace (the lines are equal once leading and trailing whitespace is
\* trimmed, and not before) resolves, at fuzz 100.
C8_LeadingWhitespace ==
    (NoCloserMatch /\ OffsetsFrom(OriginalF, WindowOf(DiffBody), 0, Strip) # {})
    => result.status = "completed" /\ result.fuzz = 100

\* A hunk whose context has leading whitespace the file does not have was
\* applied and changed the file.
C8_Witness ==
    /\ NoCloserMatch /\ OffsetsFrom(OriginalF, WindowOf(DiffBody), 0, Strip) # {}
    /\ result.status = "completed"
    /\ fs # fs0

\* ------------------------------------------------------------------------
\* The scan cursor
\* ------------------------------------------------------------------------

\* C9: a hunk whose window matches the original lines at no offset from the
\* cursor, at any tier, fails the parse with ContextNotFound (the message
\* alone telling an end-of-file hunk apart) and puts nothing in the patch:
\* a call of one such hunk fails so, and every hunk the parser accepted
\* matches at some offset from the cursor it was resolved from.
C9_ContextNotFound ==
    /\ (OneHunk /\ OffsetsFrom(OriginalF, WindowOf(DiffBody), 0, Strip) = {}) =>
            /\ result.status = "failed"
            /\ result.msg = (IF DiffEof THEN "Error: Invalid EOF Context "
                                        ELSE "Error: Invalid Context ")
            /\ result.arg = Join(WindowOf(DiffBody))
            /\ patch.actions = <<>>
            /\ fs = fs0
    /\ UpdatedF =>
            \A k \in 1..Len(HunksOfF) :
                \/ HunksOfF[k].window = <<>>
                \/ OffsetsFrom(OriginalF, HunksOfF[k].window, HunksOfF[k].start, Strip) # {}

\* C10: within an Update section every hunk, an end-of-file one included,
\* resolves at or after the cursor, which is the end of the window of the
\* hunk before it.
C10_CursorForward ==
    UpdatedF =>
        \A k \in 1..Len(HunksOfF) :
            /\ HunksOfF[k].new_index >= HunksOfF[k].start
            /\ k > 1 => HunksOfF[k].new_index >=
                            HunksOfF[k - 1].new_index + Len(HunksOfF[k - 1].window)

\* ------------------------------------------------------------------------
\* The chunks of an Update action
\* ------------------------------------------------------------------------

\* The chunks of the Update action of f are in anchor order, each ending
\* (anchor plus removed lines) at or before the anchor of the next.
ChunksDisjoint ==
    \A k \in 1..(Len(ChunksOfF) - 1) :
        ChunksOfF[k].orig_index + Len(ChunksOfF[k].del_lines)
            <= ChunksOfF[k + 1].orig_index

\* C11: the chunks of every Update action the parser produces are in
\* strictly increasing anchor order and do not overlap: a chunk's anchor
\* plus the number of lines it removes is at most the next chunk's anchor.
C11_ChunksOrdered ==
    UpdatedF =>
        /\ \A k \in 1..(Len(ChunksOfF) - 1) :
                ChunksOfF[k].orig_index < ChunksOfF[k + 1].orig_index
        /\ ChunksDisjoint

\* ------------------------------------------------------------------------
\* End-of-file hunks
\* ------------------------------------------------------------------------

\* The offset at which a window ends with the last line of the lines of a
\* file, and whether the window matches there at some tier.
TailOf(original, window) == Len(original) - Len(window)
MatchesTailOf(original, window) ==
    /\ TailOf(original, window) >= 0
    /\ \A n \in 1..Len(window) :
          Strip(original[TailOf(original, window) + n]) = Strip(window[n])
TailOffset(window) == TailOf(OriginalF, window)
MatchesTail(window) == MatchesTailOf(OriginalF, window)

\* C12: an end-of-file hunk whose window matches the last lines of the file
\* resolves at that tail offset, also when the same window occurs earlier
\* in the file: a call of one such hunk applies it there, and every such
\* hunk the parser accepted was resolved there.
C12_TailFirst ==
    /\ (DiffEof /\ OneHunk) =>
            With(WindowOf(DiffBody), LAMBDA window :
                MatchesTail(window) =>
                    /\ result.status = "completed"
                    /\ fs[FullF] = HunkAppliedAt(TailOffset(window)))
    /\ UpdatedF =>
            With(OriginalF, LAMBDA original :
                \A k \in 1..Len(HunksOfF) :
                    (HunksOfF[k].eof /\ MatchesTailOf(original, HunksOfF[k].window)) =>
                        HunksOfF[k].new_index = TailOf(original, HunksOfF[k].window))

\* An end-of-file hunk whose window occurs twice in the file, the second
\* time as its last lines, was applied and changed the file.
C12_Witness ==
    /\ OneHunk /\ DiffEof /\ WindowOf(DiffBody) # <<>>
    /\ MatchesTail(WindowOf(DiffBody))
    /\ Cardinality(OffsetsFrom(OriginalF, WindowOf(DiffBody), 0, IdLine)) >= 2
    /\ result.status = "completed"
    /\ fs # fs0

\* The tier at which a window resolves in a scan from the offset from on
\* (the first of exact, right-trimmed and trimmed comparison to match
\* anywhere), what that tier costs and the first offset matching at it.
TierOffsets(window, from) ==
    IF OffsetsFrom(OriginalF, window, from, IdLine) # {}
    THEN OffsetsFrom(OriginalF, window, from, IdLine)
    ELSE IF OffsetsFrom(OriginalF, window, from, RStrip) # {}
    THEN OffsetsFrom(OriginalF, window, from, RStrip)
    ELSE OffsetsFrom(OriginalF, window, from, Strip)
TierCost(window, from) ==
    IF OffsetsFrom(OriginalF, window, from, IdLine) # {} THEN 0
    ELSE IF OffsetsFrom(OriginalF, window, from, RStrip) # {} THEN 1
    ELSE 100
ForwardOffset(window, from) == SetMin(TierOffsets(window, from))

\* C13: an end-of-file hunk whose window does not match at the tail offset
\* at any tier is resolved by the forward scan from the cursor and costs
\* 10000 on top of the cost of the tier it matched at; one that matches at
\* the tail, and a hunk without the marker, cost the tier alone.  This is
\* so of a call of one hunk and of every hunk the parser accepted.
C13_TailPenalty ==
    /\ (OneHunk /\ OffsetsFrom(OriginalF, WindowOf(DiffBody), 0, Strip) # {}) =>
            /\ result.status = "completed"
            /\ IF DiffEof /\ ~MatchesTail(WindowOf(DiffBody))
               THEN /\ result.fuzz = 10000 + TierCost(WindowOf(DiffBody), 0)
                    /\ fs[FullF] = HunkAppliedAt(ForwardOffset(WindowOf(DiffBody), 0))
               ELSE IF DiffEof
               THEN result.fuzz = TierCost(WindowOf(DiffBody),
                                           TailOffset(WindowOf(DiffBody)))
               ELSE result.fuzz = TierCost(WindowOf(DiffBody), 0)
    /\ UpdatedF =>
            \A k \in 1..Len(HunksOfF) :
                LET h == HunksOfF[k] IN
                IF h.eof /\ ~MatchesTail(h.window)
                THEN /\ h.new_index = ForwardOffset(h.window, h.start)
                     /\ h.fuzz = 10000 + TierCost(h.window, h.start)
                ELSE h.fuzz < 10000

\* An end-of-file hunk whose window is not at the end of the file but,
\* but for trailing whitespace, earlier in it, was applied there.
C13_Witness ==
    /\ OneHunk /\ DiffEof /\ WindowOf(DiffBody) # <<>>
    /\ ~MatchesTail(WindowOf(DiffBody))
    /\ result.status = "completed"
    /\ result.fuzz = 10001
    /\ fs # fs0

\* ------------------------------------------------------------------------
\* Several matches
\* ------------------------------------------------------------------------

\* C14 as stated: a hunk whose window matches at several offsets from the
\* cursor on resolves at the lowest of them, whatever the tier of a match
\* at a later offset.
C14_FirstOffset ==
    /\ (OneHunk /\ ~DiffEof /\ WindowOf(DiffBody) # <<>>
               /\ OffsetsFrom(OriginalF, WindowOf(DiffBody), 0, Strip) # {}) =>
            /\ result.status = "completed"
            /\ fs[FullF] = HunkAppliedAt(SetMin(OffsetsFrom(OriginalF, WindowOf(DiffBody),
                                                             0, Strip)))
    /\ UpdatedF =>
            \A k \in 1..Len(HunksOfF) :
                (~HunksOfF[k].eof /\ HunksOfF[k].window # <<>>) =>
                    HunksOfF[k].new_index =
                        SetMin(OffsetsFrom(OriginalF, HunksOfF[k].window,
                                           HunksOfF[k].start, Strip))

\* C14 amended: such a hunk resolves at the lowest of the offsets that
\* match at the least fuzzy tier matching anywhere from the cursor on: an
\* exact match at a later offset is taken before a right-trimmed or trimmed
\* match at an earlier one.
C14_FirstOffsetOfTier ==
    /\ (OneHunk /\ ~DiffEof /\ WindowOf(DiffBody) # <<>>
               /\ OffsetsFrom(OriginalF, WindowOf(DiffBody), 0, Strip) # {}) =>
            /\ result.status = "completed"
            /\ result.fuzz = TierCost(WindowOf(DiffBody), 0)
            /\ fs[FullF] = HunkAppliedAt(ForwardOffset(WindowOf(DiffBody), 0))
    /\ UpdatedF =>
            \A k \in 1..Len(HunksOfF) :
                (~HunksOfF[k].eof /\ HunksOfF[k].window # <<>>) =>
                    HunksOfF[k].new_index =
                        ForwardOffset(HunksOfF[k].window, HunksOfF[k].start)

\* A hunk was applied whose window matches at two offsets, at the first
\* but for trailing whitespace and at the second exactly.
C14_Witness ==
    /\ OneHunk /\ ~DiffEof /\ WindowOf(DiffBody) # <<>>
    /\ Cardinality(OffsetsFrom(OriginalF, WindowOf(DiffBody), 0, RStrip)) >= 2
    /\ OffsetsFrom(OriginalF, WindowOf(DiffBody), 0, IdLine) # {}
    /\ ForwardOffset(WindowOf(DiffBody), 0)
           > SetMin(OffsetsFrom(OriginalF, WindowOf(DiffBody), 0, RStrip))
    /\ result.status = "completed"
    /\ fs # fs0

\* ------------------------------------------------------------------------
\* Paths of a document
\* ------------------------------------------------------------------------

\* A path names, inside base_path, something the store held before the call.
PreExists(path) ==
    /\ ~IsErr(validate_path(path).err)
    /\ path_exists(fs0, validate_path(path).full)

\* A create_file call of a path that exists is refused and the store kept.
CreateRefused ==
    (pc = "done" /\ call.op = "create_file" /\ call.diff # <<>>
                 /\ PreExists(call.path)) =>
        /\ result.status = "failed"
        /\ call.path # <<>> => result.msg = "Error: File already exists at path "
        /\ fs = fs0

\* C15: an Add of a path that already exists is rejected and the existing
\* file keeps its content, for the create_file operation and for an
\* '*** Add File:' section of a document alike.
C15_AddExisting ==
    /\ CreateRefused
    /\ pc = "done" =>
            \A k \in 1..Len(patch.actions) :
                (patch.actions[k].type = "add" /\ PreExists(patch.actions[k].path)) =>
                    /\ result.status \in {"failed", "raised"}
                    /\ fs = fs0

\* The line the last iteration of the loop of Parser.parse began at, the
\* kind of section header it is ("" when none) and the path it names.
SectionLine == parser.plines[parser.at + 1]
HeaderKind(line) ==
    IF StartsWith(line, UpdateFilePrefix) /\ Len(line) > Len(UpdateFilePrefix) THEN "Update"
    ELSE IF StartsWith(line, DeleteFilePrefix) /\ Len(line) > Len(DeleteFilePrefix) THEN "Delete"
    ELSE IF StartsWith(line, AddFilePrefix) /\ Len(line) > Len(AddFilePrefix) THEN "Add"
    ELSE ""
HeaderPath(line) ==
    IF HeaderKind(line) = "Add" THEN Drop(line, Len(AddFilePrefix))
    ELSE Drop(line, Len(UpdateFilePrefix))

\* The paths the sections parsed before that iteration named.
NamedBefore == {parser.before[k].path : k \in 1..Len(parser.before)}

DuplicatePath(kind) == kind \o " File Error: Duplicate Path: "
MissingFile(kind) == kind \o " File Error: Missing File: "
PathErrors ==
    {DuplicatePath(k) : k \in {"Update", "Delete", "Add"}}
        \cup {MissingFile(k) : k \in {"Update", "Delete"}}

\* C16: a section header that names a path an earlier header of the
\* document named, of whatever kinds the two are, fails the parse with
\* DuplicatePath; an Update or Delete header naming a path that is not in
\* the loaded set fails it with MissingFile; and a call that failed so
\* applied nothing.
C16_DuplicateOrMissing ==
    /\ (parser.at >= 0 /\ HeaderKind(SectionLine) # "") =>
         /\ HeaderPath(SectionLine) \in NamedBefore =>
              /\ parser.st.err = Err(DuplicatePath(HeaderKind(SectionLine)),
                                     HeaderPath(SectionLine))
              /\ parser.st.actions = parser.before
         /\ (/\ HeaderKind(SectionLine) \in {"Update", "Delete"}
             /\ HeaderPath(SectionLine) \notin NamedBefore
             /\ HeaderPath(SectionLine) \notin DOMAIN parser.current_files) =>
              /\ parser.st.err = Err(MissingFile(HeaderKind(SectionLine)),
                                     HeaderPath(SectionLine))
              /\ parser.st.actions = parser.before
    /\ (pc = "done" /\ parser.st.err.kind \in PathErrors) =>
         /\ result.status \in {"failed", "raised"}
         /\ result.arg = parser.st.err.arg
         /\ fs = fs0
         /\ \A k \in 1..Len(log) : log[k].op \notin {"write", "remove"}

\* A call failed with DuplicatePath at a Delete header naming the path an
\* Update section before it had named.
C16_Witness ==
    /\ pc = "done" /\ parser.at >= 0
    /\ HeaderKind(SectionLine) = "Delete"
    /\ \E k \in 1..Len(parser.before) :
          /\ parser.before[k].type = "update"
          /\ parser.before[k].path = HeaderPath(SectionLine)
    /\ parser.st.err.kind = DuplicatePath("Delete")
    /\ result.status \in {"failed", "raised"}

\* ------------------------------------------------------------------------
\* Lines that are no section header
\* ------------------------------------------------------------------------

\* The line the parser is at when it expects a section header.
HeaderExpected ==
    /\ pc = "parsing" /\ ~IsErr(parser.st.err)
    /\ parser.st.pindex < Len(parser.plines)
LineExpected == parser.plines[parser.st.pindex + 1]

\* A line is no Update, Delete or Add header.
NoHeader(line) ==
    ~StartsWithAny(line, {UpdateFilePrefix, DeleteFilePrefix, AddFilePrefix})

\* C17: whenever the parser expects a section header and the line it is at
\* is no Update, Delete or Add header and not the end sentinel, its next
\* step fails the parse with UnknownLine naming exactly that line.
C17_UnknownLine ==
    [][(HeaderExpected /\ NoHeader(LineExpected) /\ LineExpected # EndPatch) =>
            parser'.st.err = Err("Unknown Line: ", LineExpected)]_vars

\* ------------------------------------------------------------------------
\* The sentinels
\* ------------------------------------------------------------------------

\* The lines of the patch text the call handed to _text_to_patch, and
\* whether its first and last line are not the two sentinels.
PatchLines ==
    Split(Strip(IF call.op = "update_file" THEN update_text(call.path, call.diff)
                ELSE wrapped(call.diff)))
BadSentinels == PatchLines[1] # BeginPatch \/ PatchLines[Len(PatchLines)] # EndPatch

\* C18: a patch text whose first line is not the begin sentinel or whose
\* last line is not the end sentinel fails with the grammar error, before
\* anything else is done: no file was read and no section parsed.
C18_SentinelsFirst ==
    (pc = "done" /\ call.op \in {"process_v4a_diff", "update_file"} /\ BadSentinels) =>
        /\ result.status \in {"raised", "failed"}
        /\ result.msg \in {"Invalid patch text", "Error: Invalid patch text"}
        /\ \A k \in 1..Len(log) : log[k].op # "read"
        /\ parser = NoParser
        /\ patch.actions = <<>>

\* ------------------------------------------------------------------------
\* Anchor lines
\* ------------------------------------------------------------------------

\* The text of an anchor line '@@ <text>' (<<>> for any other line), and
\* the offsets from the offset from on of the lines of the file that equal
\* a text, exactly or once both are trimmed.
AnchorText(line) == IF StartsWith(line, AtAtSpace) THEN Drop(line, Len(AtAtSpace)) ELSE <<>>
LinesEqual(text, from) ==
    {i \in from..(Len(OriginalF) - 1) : OriginalF[i + 1] = text}
LinesEqualTrimmed(text, from) ==
    {i \in from..(Len(OriginalF) - 1) : Strip(OriginalF[i + 1]) = Strip(text)}

\* C19: a hunk that opens with '@@ <text>' when no line of the file from
\* the cursor on equals the text, exactly or trimmed, makes the parse give
\* up with an invalid-line error: a call whose diff opens so fails with
\* it, and every anchored hunk the parser accepted had its text in the file
\* from the cursor on.
C19_AnchorNotFound ==
    /\ (/\ pc = "done" /\ call.op = "update_file" /\ call.path = PathF
        /\ Strip(AnchorText(DiffLines[1])) # <<>>
        /\ LinesEqualTrimmed(AnchorText(DiffLines[1]), 0) = {}) =>
            /\ result.status = "failed"
            /\ result.msg = "Error: Invalid Line:\n"
            /\ fs = fs0
    /\ UpdatedF =>
            \A k \in 1..Len(HunksOfF) :
                Strip(AnchorText(HunksOfF[k].anchor_line)) # <<>> =>
                    LinesEqualTrimmed(AnchorText(HunksOfF[k].anchor_line),
                                      HunksOfF[k].cursor) # {}

\* C20: a hunk that opens with '@@ <text>' is resolved from just after the
\* first line at or after the cursor that equals the text exactly, at no
\* fuzz, or failing that from just after the first that equals it once
\* trimmed, at fuzz 1, wherever the cursor is and whether or not the text
\* also occurs before it.
C20_AnchorSeek ==
    UpdatedF =>
        \A k \in 1..Len(HunksOfF) :
            LET h == HunksOfF[k]
                text == AnchorText(h.anchor_line)
            IN  Strip(text) # <<>> =>
                    IF LinesEqual(text, h.cursor) # {}
                    THEN /\ h.start = SetMin(LinesEqual(text, h.cursor)) + 1
                         /\ h.anchor_fuzz = 0
                    ELSE LinesEqualTrimmed(text, h.cursor) # {} =>
                         /\ h.start = SetMin(LinesEqualTrimmed(text, h.cursor)) + 1
                         /\ h.anchor_fuzz = 1

\* ------------------------------------------------------------------------
\* Hunks without an anchor line
\* ------------------------------------------------------------------------

\* The parser is about to read a hunk of an Update section, and the line
\* the hunk opens with.
HunkOpens ==
    /\ pc = "parsing" /\ parser.loop = "hunk"
    /\ ~IsErr(parser.inner.err)
    /\ ~is_done(parser.plines, parser.inner.pindex, UpdateStops)
HunkLine == parser.plines[parser.inner.pindex + 1]

\* A line is an anchor line: '@@' or '@@ <text>'.
IsAnchorLine(line) == line = AtAt \/ StartsWith(line, AtAtSpace)

\* The first hunk of a section, opening without an anchor line, is not
\* refused for it, and when the parser accepts it, it was resolved from
\* cursor 0.
FirstHunkFromZero ==
    (HunkOpens /\ ~IsAnchorLine(HunkLine) /\ parser.inner.hunks = <<>>) =>
        /\ parser'.inner.err.kind # "Invalid Line:\n"
        /\ ~IsErr(parser'.inner.err) =>
              /\ Len(parser'.inner.hunks) = 1
              /\ parser'.inner.hunks[1].cursor = 0
              /\ parser'.inner.hunks[1].start = 0

\* C21 as stated: a hunk without an anchor line is accepted only as the
\* first hunk of its Update section, where it begins at cursor 0; any later
\* hunk of the section without one fails with the invalid-line error.
C21_AnchorlessFirstOnly ==
    [][/\ FirstHunkFromZero
       /\ (HunkOpens /\ ~IsAnchorLine(HunkLine) /\ parser.inner.hunks # <<>>) =>
              parser'.inner.err = Err("Invalid Line:\n", HunkLine)]_vars

\* C21, amended: a hunk without an anchor line is accepted only as the
\* first hunk of its Update section, where it begins at cursor 0; any later
\* hunk of the section without one fails, with the invalid-line error when
\* the cursor has left 0 and with the empty-section error when the cursor
\* is still 0.
C21_AnchorlessFirstOnlyFails ==
    [][/\ FirstHunkFromZero
       /\ (HunkOpens /\ ~IsAnchorLine(HunkLine) /\ parser.inner.hunks # <<>>) =>
              parser'.inner.err =
                  IF parser.inner.index # 0 THEN Err("Invalid Line:\n", HunkLine)
                  ELSE Err("Nothing in this section", HunkLine)]_vars

\* The first hunk of a section was accepted without an anchor line from
\* cursor 0 and the second, without one too, refused with the invalid-line
\* error.
C21_Witness ==
    /\ pc = "parsing" /\ parser.loop = "hunk"
    /\ Len(parser.inner.hunks) = 1
    /\ parser.inner.hunks[1].anchor_line = <<>>
    /\ parser.inner.hunks[1].start = 0
    /\ parser.inner.pindex < Len(parser.plines)
    /\ ~IsAnchorLine(parser.plines[parser.inner.pindex + 1])
    /\ parser.inner.err.kind = "Invalid Line:\n"

\* ------------------------------------------------------------------------
\* The lines of a hunk body
\* ------------------------------------------------------------------------

\* The diff of the call is the body of one hunk, and whether each of its
\* lines opens with '+', '-' or a space or is empty.
BodyOnly == pc = "done" /\ call.op = "update_file" /\ call.path = PathF /\ call.diff # <<>>
BodyLineOk(l) == l = <<>> \/ l[1] \in {"+", "-", " "}
BodyOk == \A n \in 1..Len(DiffLines) : BodyLineOk(DiffLines[n])

\* A body of '+', '-', context and empty lines is read as one hunk whose
\* window is its '-', context and empty lines in order, an empty line
\* being a blank line; where the window is found, the '+' lines are
\* inserted, the '-' lines removed and the other lines of the window
\* kept.
BodyClassified ==
    (BodyOnly /\ BodyOk) =>
        /\ result.msg \in {"Updated ", "Error: Invalid Context "}
        /\ result.status = "completed" =>
              /\ Len(HunksOfF) = 1
              /\ HunksOfF[1].body = DiffLines
              /\ HunksOfF[1].window = WindowOf(DiffLines)
              /\ Len(Flatten([k \in 1..Len(ChunksOfF) |-> ChunksOfF[k].ins_lines]))
                     = Cardinality({n \in 1..Len(DiffLines) : HunkMark(DiffLines[n]) = "+"})
              /\ Len(Flatten([k \in 1..Len(ChunksOfF) |-> ChunksOfF[k].del_lines]))
                     = Cardinality({n \in 1..Len(DiffLines) : HunkMark(DiffLines[n]) = "-"})
              /\ fs[FullF] = HunkAppliedAt(HunksOfF[1].new_index)

\* C22: in a hunk body a '+' line is inserted only, a '-' line is removed
\* only and joins the window, a line that opens with a space or is empty
\* is a context line that joins the window and is kept, the empty line
\* being one blank context line; a line with any other leading character
\* makes the parse fail.
C22_BodyLines ==
    /\ BodyClassified
    /\ (BodyOnly /\ ~BodyOk) =>
          /\ result.status = "failed"
          /\ result.msg \in {"Error: " \o e : e \in ParseErrors}
          /\ fs = fs0

\* ------------------------------------------------------------------------
\* Add File sections
\* ------------------------------------------------------------------------

\* The last iteration of the loop of Parser.parse began at an Add File
\* header of a path not named before.  The body of the section: the lines
\* after the header up to the next section header or the end sentinel.
AddSection ==
    /\ parser.at >= 0
    /\ HeaderKind(SectionLine) = "Add"
    /\ HeaderPath(SectionLine) \notin NamedBefore
SectionEnds(line) == line = EndPatch \/ HeaderKind(line) # ""
AddBodyEnd ==
    SetMin({k \in (parser.at + 2)..Len(parser.plines) : SectionEnds(parser.plines[k])}
           \cup {Len(parser.plines) + 1})
AddBody == SubSeq(parser.plines, parser.at + 2, AddBodyEnd - 1)
NotPlus(l) == ~StartsWith(l, <<"+">>)

\* C23: in an Add File section every body line must begin with '+': the
\* new file is the body lines without the leading '+', joined by newlines,
\* and a body line with any other prefix, the empty line included, fails
\* the parse with InvalidAddLine; the file a completed call leaves is the
\* new file.
C23_AddBody ==
    /\ AddSection =>
         IF \A n \in 1..Len(AddBody) : ~NotPlus(AddBody[n])
         THEN /\ ~IsErr(parser.st.err)
              /\ parser.st.actions =
                    Append(parser.before,
                           PatchAction(HeaderPath(SectionLine), "add",
                                       Join([n \in 1..Len(AddBody) |-> Tail(AddBody[n])]),
                                       <<>>, <<>>, <<>>))
         ELSE parser.st.err = Err("Invalid Add File Line: ", SelectSeq(AddBody, NotPlus)[1])
    /\ (pc = "done" /\ result.status = "returned") =>
         \A k \in 1..Len(patch.actions) :
            patch.actions[k].type = "add" =>
                fs[BasePath \o <<Slash>> \o patch.actions[k].path] = patch.actions[k].new_file

\* ------------------------------------------------------------------------
\* The store calls of the Commit Applier
\* ------------------------------------------------------------------------

\* A call of the store, and the calls a change stands for: remove(path)
\* for a Delete, write(path, new content) for an Add and for an Update that
\* does not move, write(move path, new content) then remove(path) for an
\* Update that moves.
StoreCall(fn, path, content) == [fn |-> fn, path |-> path, content |-> content]
CallsOf(change) ==
    IF change.type = "delete" THEN <<StoreCall("remove", change.path, <<>>)>>
    ELSE IF change.type = "update" /\ change.move_path # <<>>
    THEN <<StoreCall("write", change.move_path, change.new_content),
           StoreCall("remove", change.path, <<>>)>>
    ELSE <<StoreCall("write", change.path, change.new_content)>>
CallsOfCommit == Flatten([k \in 1..Len(call.changes) |-> CallsOf(call.changes[k])])

\* What a call leaves in the log of the store.
Access(c) ==
    IF c.fn = "write"
    THEN [op |-> "write", path |-> validate_path(c.path).full, content |-> c.content]
    ELSE [op |-> "remove", path |-> validate_path(c.path).full]

\* C24: for each change of a commit, in the order of the commit, the
\* applier makes exactly the store calls the change stands for: remove for
\* a Delete, write of the new content for an Add or an Update in place,
\* write to the move path and then remove of the old path for an Update
\* that moves; a commit that is applied whole made all of them and no
\* other, one that failed made them up to the call that failed.
C24_StoreCalls ==
    (pc = "done" /\ call.op = "_apply_commit") =>
        \E n \in 0..Len(CallsOfCommit) :
            /\ log = [i \in 1..n |-> Access(CallsOfCommit[i])]
            /\ result.status = "returned" => n = Len(CallsOfCommit)
            /\ result.status = "raised" =>
                  \/ n < Len(CallsOfCommit) /\ result.msg # "OSError"
                  \/ n > 0 /\ result.msg = "OSError"

\* A commit of an Update that moves and a Delete was applied whole: three
\* store calls, the write of the move before the remove of the old path.
C24_Witness ==
    /\ pc = "done" /\ call.op = "_apply_commit"
    /\ result.status = "returned"
    /\ Len(call.changes) = 2
    /\ call.changes[1].type = "update" /\ call.changes[1].move_path # <<>>
    /\ call.changes[2].type = "delete"
    /\ Len(log) = 3
    /\ log[1].op = "write" /\ log[2].op = "remove" /\ log[3].op = "remove"

\* ------------------------------------------------------------------------
\* No rollback
\* ------------------------------------------------------------------------

\* The store after the accesses entries[k..] were made to it: a write puts
\* the content at the path, a remove takes the path away.
RECURSIVE StoreAfter(_, _, _)
StoreAfter(store, entries, k) ==
    IF k > Len(entries) THEN store
    ELSE StoreAfter(IF entries[k].op = "write"
                    THEN [q \in DOMAIN store \cup {entries[k].path} |->
                             IF q = entries[k].path THEN entries[k].content ELSE store[q]]
                    ELSE [q \in DOMAIN store \ {entries[k].path} |-> store[q]],
                    entries, k + 1)

\* The accesses of the call that went through: all of the log but, when the
\* store refused the last one, that one.
Succeeded ==
    IF result.status = "raised" /\ result.msg = "OSError"
    THEN SubSeq(log, 1, Len(log) - 1) ELSE log

\* C25: when a write or remove fails while a commit is applied, the writes
\* and removes already made for the changes before it stay applied: the
\* store is the one the calls that went through left, nothing is rolled
\* back.
C25_NoRollback ==
    (pc = "done" /\ call.op = "_apply_commit" /\ result.status = "raised") =>
        fs = StoreAfter(fs0, Succeeded, 1)

\* The second change of a commit failed after the first had removed a file,
\* which stays removed.
C25_Witness ==
    /\ pc = "done" /\ call.op = "_apply_commit" /\ result.status = "raised"
    /\ Len(call.changes) = 2
    /\ call.changes[1].type = "delete"
    /\ validate_path(call.changes[1].path).full \in DOMAIN fs0
    /\ validate_path(call.changes[1].path).full \notin DOMAIN fs

\* ------------------------------------------------------------------------
\* The results of __call__
\* ------------------------------------------------------------------------

\* The writes and removes of the call, in order.
IsChange(entry) == entry.op \in {"write", "remove"}
ChangesMade == SelectSeq(log, IsChange)

\* The store calls a completed operation stands for: the remove of the
\* path, the write of the content of the diff, or the calls of every change
\* of the commit built from what the parser produced.
CallsOfOperation ==
    IF call.op = "delete_file" THEN <<StoreCall("remove", call.path, <<>>)>>
    ELSE IF call.op = "create_file"
    THEN <<StoreCall("write", call.path, parse_create_diff(call.diff))>>
    ELSE With(patch_to_commit(patch.actions,
                              [q \in {call.path} |->
                                  fs0[validate_path(call.path).full]]).changes,
              LAMBDA changes : Flatten([k \in 1..Len(changes) |-> CallsOf(changes[k])]))

\* Something the call needs is missing or wrong from the start.
BadCall ==
    \/ call.op \notin {"delete_file", "create_file", "update_file"}
    \/ call.path = <<>>
    \/ call.op # "delete_file" /\ call.diff = <<>>
    \/ IsErr(validate_path(call.path).err)

\* The messages of a failed call: those __call__ writes itself and those
\* it makes of an exception.
FailureMessages ==
    {"Error: Missing operation type", "Error: Missing file path",
     "Error: Missing diff for create_file operation",
     "Error: Missing diff for update_file operation",
     "Error: Unknown operation type ", "Error: File not found at path ",
     "Error: File already exists at path "}
    \cup {"Error: " \o e : e \in ParseErrors \cup OutOfOrderChunk
                                  \cup {"Absolute paths are not allowed: ",
                                        "Path traversal detected: ", "File not found: ",
                                        "Error reading file ", "OSError"}}

\* C26: __call__ never raises and always returns 'completed' or 'failed'
\* with a message: 'failed' whenever an argument is missing, the path is
\* refused, the parser, the resolver or the builder stopped with an
\* error or the store refused an access; 'completed' only when every
\* change of the operation was applied, the store being what those
\* changes make of it.
C26_CompletedOrFailed ==
    pc = "done" =>
        /\ result.status \in {"completed", "failed"}
        /\ (BadCall \/ IsErr(patch.err)) => result.status = "failed"
        /\ result.status = "failed" => result.msg \in FailureMessages
        /\ result.status = "completed" =>
              /\ result.msg \in {"Deleted ", "Created ", "Updated "}
              /\ ChangesMade = [i \in 1..Len(CallsOfOperation) |->
                                    Access(CallsOfOperation[i])]
              /\ fs = StoreAfter(fs0, ChangesMade, 1)

\* An update_file call failed in the store on its second change, after
\* the first had been written.
C26_Witness ==
    /\ pc = "done" /\ call.op = "update_file"
    /\ result.status = "failed"
    /\ ~IsErr(patch.err) /\ Len(patch.actions) = 2
    /\ Len(ChangesMade) = 1
    /\ fs # fs0

\* ------------------------------------------------------------------------
\* C27: what the fuzz is made of and what it is used for
\* ------------------------------------------------------------------------

\* What a hunk the parser accepted costs: 1 for an anchor line found only
\* trimmed, the cost of the tier its window matched at (at the end of the
\* file, or failing that from the cursor), and 10000 for an end-of-file
\* hunk whose window does not match at the end of the file.
AnchorCost(h) ==
    IF h.start > h.cursor /\ OriginalF[h.start] # SubSeq(h.anchor_line, 4, Len(h.anchor_line))
    THEN 1 ELSE 0
AtTail(h) == h.eof /\ MatchesTail(h.window)
HunkTierCost(h) ==
    IF AtTail(h) THEN TierCost(h.window, TailOffset(h.window))
    ELSE TierCost(h.window, h.start)
TailPenalty(h) == IF h.eof /\ ~MatchesTail(h.window) THEN 10000 ELSE 0

RECURSIVE DocumentFuzz(_, _)
DocumentFuzz(hunks, k) ==
    IF k > Len(hunks) THEN 0
    ELSE AnchorCost(hunks[k]) + HunkTierCost(hunks[k]) + TailPenalty(hunks[k])
         + DocumentFuzz(hunks, k + 1)

\* The anchor text of the hunk the parser is about to read, and the cursor
\* its window is looked for from.
AnchorTextHere ==
    With(parser.plines[parser.inner.pindex + 1], LAMBDA l :
         IF StartsWith(l, AtAtSpace) THEN SubSeq(l, 4, Len(l)) ELSE <<>>)
CursorHere == seek_anchor(SectionFileLines, parser.inner.index, AnchorTextHere).index

\* The hunk just read was refused for its window.
WindowRefused ==
    parser'.inner.err.kind \in {"Invalid Context ", "Invalid EOF Context "}

\* C27: the fuzz of a document is the sum over its hunks of the cost of
\* the anchor line (0 or 1), of the tier (0, 1 or 100) and of the
\* end-of-file fallback (0 or 10000); a window is refused only when it
\* matches nowhere from the cursor at any tier, whatever the match would
\* cost; and the output of update_file names the fuzz after the path
\* exactly when it is above 0.
C27_FuzzReported ==
    /\ [](UpdatedF =>
            /\ patch.fuzz = DocumentFuzz(HunksOfF, 1)
            /\ \A k \in 1..Len(HunksOfF) :
                  /\ HunksOfF[k].anchor_fuzz = AnchorCost(HunksOfF[k])
                  /\ HunksOfF[k].fuzz = HunkTierCost(HunksOfF[k]) + TailPenalty(HunksOfF[k])
            /\ result.status = "completed" =>
                  /\ result.fuzz = patch.fuzz
                  /\ result.note # <<>> <=> patch.fuzz > 0
                  /\ patch.fuzz > 0 =>
                        result.note = <<" ", "(", "f", "u", "z", "z", ":", " ">>
                                      \o Decimal(patch.fuzz) \o <<")">>)
    /\ [][(ParseHunk /\ WindowRefused) =>
            OffsetsFrom(SectionFileLines, Split(parser'.inner.err.arg),
                        CursorHere, Strip) = {}]_vars

\* An update completed at a fuzz made of the end-of-file fallback and of
\* another cost, and its output names it.
C27_Witness ==
    /\ UpdatedF /\ result.status = "completed"
    /\ result.fuzz > 10000
    /\ result.note # <<>>

\* ------------------------------------------------------------------------
\* C28: a Delete File action and the content of its path
\* ------------------------------------------------------------------------

\* The full paths of the Delete actions of the document, and whether the
\* log tells of an access of the kind op to the path full.
DeletePaths ==
    {validate_path(patch.actions[k].path).full :
        k \in {n \in 1..Len(patch.actions) : patch.actions[n].type = "delete"}}
Accessed(op, full) == \E k \in 1..Len(log) : log[k].op = op /\ log[k].path = full

\* C28: a path removed for a Delete File action of a document was not
\* read: the log of the call holds its removal and no read of it.
C28_DeleteUnread ==
    (pc = "done" /\ call.op = "process_v4a_diff" /\ ~IsErr(patch.err)) =>
        \A full \in DeletePaths :
            Accessed("remove", full) => ~Accessed("read", full)

\* ------------------------------------------------------------------------
\* C29: the loops of the parser end
\* ------------------------------------------------------------------------

\* The patch lines the loop the parser is in has still to read.
LinesLeft ==
    Len(parser.plines) - (IF parser.loop = "section" THEN parser.st.pindex
                          ELSE parser.inner.pindex)

\* An iteration of the hunk loop or of the add-body loop, and a pass of the
\* section loop from the header of a section to the end of its body, read
\* lines or raised.
HunkLoopAdvances ==
    ParseHunk => \/ IsErr(parser'.inner.err)
                 \/ parser'.inner.pindex > parser.inner.pindex
AddLoopAdvances ==
    ReadAddLine => \/ IsErr(parser'.inner.err)
                   \/ parser'.inner.pindex > parser.inner.pindex
SectionLoopAdvances ==
    /\ EnterSection =>
          \/ IsErr(parser'.st.err)
          \/ parser'.loop = "section" /\ parser'.st.pindex > parser.st.pindex
          \/ parser'.loop # "section" /\ parser'.inner.pindex > parser.st.pindex
    /\ (EndUpdate \/ EndAdd) =>
          \/ IsErr(parser'.st.err)
          \/ parser'.st.pindex = parser.inner.pindex /\ parser'.st.pindex > parser.at

\* C29: every iteration of the section loop, of the hunk loop and of the
\* add-body loop reads at least one patch line or raises an error, no loop
\* reads past the lines of the document, and every call comes to its end.
C29_Terminates ==
    /\ [][HunkLoopAdvances /\ AddLoopAdvances /\ SectionLoopAdvances]_vars
    /\ [](pc = "parsing" => LinesLeft >= 0)
    /\ <>(pc = "done")

\* A call that went through every loop has ended: its document had a
\* section of several hunks or body lines and the parser read all of it.
C29_Witness ==
    /\ pc = "done"
    /\ ~IsErr(patch.err)
    /\ \E k \in 1..Len(patch.actions) :
          /\ patch.actions[k].type = "update"
          /\ Len(patch.actions[k].hunks) >= 2

\* ------------------------------------------------------------------------
\* Two applications of _process_v4a_diff on one store, their accesses to
\* the store interleaved
\* ------------------------------------------------------------------------

\* An application of _process_v4a_diff(doc) about to load its files: paths
\* is the list _identify_files_needed gave (line 481) and k the next of
\* them to read, orig the dict _load_files fills, calls the store calls of
\* the commit and j the next of them to make, phase where it stands
\* ("load", "apply", "done", or "failed" once it raised).
NewApplication(doc, paths) ==
    [doc |-> doc, paths |-> paths, k |-> 1, orig |-> EmptyDict,
     calls |-> <<>>, j |-> 1, phase |-> "load"]

Applications == call.apps
Finished(app) == app.phase \in {"done", "failed"}

\* Application i is now app, w being the world it left.
Becomes(i, app, w) ==
    /\ call' = [call EXCEPT !.apps[i] = app]
    /\ fs' = w.fs
    /\ log' = w.log
    /\ UNCHANGED <<pc, fs0, result, patch, parser>>

\* Two applications start on the store.
BeginPair(doc1, doc2) ==
    /\ pc = "ready"
    /\ \E o1 \in Orders(identify_files_needed(wrapped(doc1))) :
       \E o2 \in Orders(identify_files_needed(wrapped(doc2))) :
          call' = [op |-> "pair", path |-> <<>>, diff |-> <<>>,
                   apps |-> <<NewApplication(doc1, o1), NewApplication(doc2, o2)>>]
    /\ pc' = "pair"
    /\ UNCHANGED <<fs, fs0, log, result, patch, parser>>

\* One iteration of the loop of _load_files (lines 471-472).
LoadFile(i) ==
    /\ pc = "pair"
    /\ Applications[i].phase = "load" /\ Applications[i].k <= Len(Applications[i].paths)
    /\ \E app \in {Applications[i]} :
       \E r \in {open_file([fs |-> fs, log |-> log], app.paths[app.k])} :
          Becomes(i, IF IsErr(r.err) THEN [app EXCEPT !.phase = "failed"]
                     ELSE [app EXCEPT !.k = @ + 1,
                                      !.orig = [q \in DOMAIN app.orig \cup {app.paths[app.k]} |->
                                                   IF q = app.paths[app.k] THEN r.text
                                                   ELSE app.orig[q]]],
                  r.w)

\* Lines 483-484 of _process_v4a_diff: _text_to_patch and _patch_to_commit
\* on what was loaded, the store not being touched.
BuildCommit(i) ==
    /\ pc = "pair"
    /\ Applications[i].phase = "load" /\ Applications[i].k > Len(Applications[i].paths)
    /\ \E app \in {Applications[i]} :
       \E parsed \in {text_to_patch(wrapped(app.doc), app.orig)} :
       \E commit \in {IF IsErr(parsed.err) THEN [changes |-> <<>>, err |-> parsed.err]
                      ELSE patch_to_commit(parsed.actions, app.orig)} :
       \E calls \in {Flatten([n \in 1..Len(commit.changes) |-> CallsOf(commit.changes[n])])} :
          Becomes(i, IF IsErr(commit.err) THEN [app EXCEPT !.phase = "failed"]
                     ELSE [app EXCEPT !.calls = calls,
                                      !.phase = IF calls = <<>> THEN "done" ELSE "apply"],
                  [fs |-> fs, log |-> log])

\* StoreStep with an application that works on a copy of the store taken
\* before the calls began and puts the copy back with its first call.
StoreStepOnCopy(i) ==
    /\ pc = "pair"
    /\ Applications[i].phase = "apply"
    /\ \E app \in {Applications[i]} :
       \E c \in {app.calls[app.j]} :
       \E w \in {[fs |-> IF app.j = 1 THEN fs0 ELSE fs, log |-> log]} :
       \E r \in {IF c.fn = "write" THEN write_file(w, c.path, c.content)
                 ELSE remove_file(w, c.path)} :
          Becomes(i, IF IsErr(r.err) THEN [app EXCEPT !.phase = "failed"]
                     ELSE [app EXCEPT !.j = @ + 1,
                                      !.phase = IF app.j = Len(app.calls) THEN "done"
                                                ELSE "apply"],
                  r.w)

\* One call of write_fn or remove_fn by _apply_commit (lines 396-405).
StoreStep(i) ==
    /\ pc = "pair"
    /\ Applications[i].phase = "apply"
    /\ \E app \in {Applications[i]} :
       \E c \in {app.calls[app.j]} :
       \E r \in {IF c.fn = "write"
                 THEN write_file([fs |-> fs, log |-> log], c.path, c.content)
                 ELSE remove_file([fs |-> fs, log |-> log], c.path)} :
          Becomes(i, IF IsErr(r.err) THEN [app EXCEPT !.phase = "failed"]
                     ELSE [app EXCEPT !.j = @ + 1,
                                      !.phase = IF app.j = Len(app.calls) THEN "done"
                                                ELSE "apply"],
                  r.w)

\* Both applications returned or raised.
EndPair ==
    /\ pc = "pair"
    /\ Finished(Applications[1]) /\ Finished(Applications[2])
    /\ pc' = "done"
    /\ UNCHANGED <<fs, fs0, log, call, result, patch, parser>>

\* Two documents at a time on the files f, h and d/k: each updates,
\* deletes, moves or adds a file, names a file in two ways or under the
\* path of another, fails to resolve, or goes on after a line that opens
\* with the end sentinel.
PairStores == CommitStores
PairDocs ==
    {Join(<<UpdateFilePrefix \o PathF, Ctx(<<"a">>), Ins(<<"x">>)>>),
     Join(<<UpdateFilePrefix \o PathF, Ctx(<<"b">>)>>),
     Join(<<DeleteFilePrefix \o PathF>>),
     Join(<<DeleteFilePrefix \o <<".", Slash>> \o PathF>>),
     Join(<<DeleteFilePrefix \o PathH>>),
     Join(<<UpdateFilePrefix \o PathH, MoveToPrefix \o PathG, Ctx(<<"a">>), Ins(<<"y">>)>>),
     Join(<<AddFilePrefix \o PathG, Ins(<<"x">>)>>),
     Join(<<AddFilePrefix \o PathG \o <<Slash, "x">>, Ins(<<"y">>)>>),
     Join(<<AddFilePrefix \o PathD, Ins(<<"x">>)>>),
     Join(<<AddFilePrefix \o PathG, Ins(<<"z">>), EndPatches, DeleteFilePrefix \o PathH>>)}

InitPair == InitOver(PairStores)
BeginPairOfDocs == \E doc1, doc2 \in PairDocs : BeginPair(doc1, doc2)
NextPair ==
    \/ BeginPairOfDocs
    \/ \E i \in 1..2 : LoadFile(i)
    \/ \E i \in 1..2 : BuildCommit(i)
    \/ \E i \in 1..2 : StoreStep(i)
    \/ EndPair
SpecPair == InitPair /\ [][NextPair]_vars

\* ------------------------------------------------------------------------
\* C30: two applications on paths that are apart
\* ------------------------------------------------------------------------

\* The paths a document names for its actions: those of the section headers
\* and move lines the parser reads, which are the lines before the first
\* that opens with the end sentinel.
ReadLines(doc) ==
    With(Split(doc), LAMBDA ls :
    With({n \in 1..Len(ls) : StartsWith(ls[n], EndPatch)}, LAMBDA ends :
         IF ends = {} THEN ls ELSE SubSeq(ls, 1, SetMin(ends) - 1)))
NamedBy(ls, prefix) ==
    {Drop(ls[n], Len(prefix)) : n \in {m \in 1..Len(ls) : StartsWith(ls[m], prefix)}}
ActionNames(doc) ==
    With(ReadLines(doc), LAMBDA ls :
         NamedBy(ls, UpdateFilePrefix) \cup NamedBy(ls, DeleteFilePrefix)
         \cup NamedBy(ls, AddFilePrefix) \cup NamedBy(ls, MoveToPrefix))

\* The places of the store a document has to do with: what the paths it
\* names for its actions and the paths it loads resolve to under the base.
Places(doc) ==
    {validate_path(p).full :
        p \in {q \in ActionNames(doc) \cup identify_files_needed(wrapped(doc)) :
                 ~IsErr(validate_path(q).err)}}

\* No place of one document is a place of the other or a directory above
\* one.
Apart(doc1, doc2) ==
    \A p \in Places(doc1), q \in Places(doc2) :
        p # q /\ p \notin Ancestors(q) /\ q \notin Ancestors(p)

\* The store after the two applications ran one after the other.
OneAfterTheOther(first, second) ==
    With(process_v4a_diff([fs |-> fs0, log |-> <<>>], first.doc, first.paths).w.fs,
         LAMBDA between :
            process_v4a_diff([fs |-> between, log |-> <<>>], second.doc, second.paths).w.fs)

AsInEitherOrder ==
    /\ fs = OneAfterTheOther(Applications[1], Applications[2])
    /\ fs = OneAfterTheOther(Applications[2], Applications[1])

BothEnded == pc = "done" /\ call.op = "pair"

\* C30 as stated: whenever the paths two applications name for their
\* actions (action paths and move targets) are disjoint sets, every
\* interleaving of their loads, writes and removes leaves the store as
\* running them one after the other does, in either order.
C30_DisjointPaths ==
    (BothEnded /\ ActionNames(Applications[1].doc) \cap ActionNames(Applications[2].doc) = {})
    => AsInEitherOrder

\* C30, amended: whenever no place one application names or loads is a
\* place of the other or a directory above one, every interleaving of
\* their loads, writes and removes leaves the store as running them one
\* after the other does, in either order.
C30_PlacesApart ==
    (BothEnded /\ Apart(Applications[1].doc, Applications[2].doc))
    => AsInEitherOrder

\* Two applications on places apart both went through, each changing the
\* store, the second reading its file between the read and the write of
\* the first.
C30_Witness ==
    /\ BothEnded
    /\ Apart(Applications[1].doc, Applications[2].doc)
    /\ Applications[1].phase = "done" /\ Applications[2].phase = "done"
    /\ Len(log) >= 4
    /\ log[1].path \in Places(Applications[1].doc) /\ log[1].op = "read"
    /\ log[2].path \in Places(Applications[2].doc) /\ log[2].op = "read"
    /\ log[3].path \in Places(Applications[1].doc) /\ log[3].op = "write"
    /\ log[4].path \in Places(Applications[2].doc)

\* ------------------------------------------------------------------------
\* ShellTool (shell.py): calls of the tool, each a task of the event loop,
\* on the bash sessions the tool starts.  A task runs from one await to the
\* next without another task or a callback of the loop coming between; the
\* awaits are those of _BashSession.start (create_subprocess_shell, line 87)
\* and of the read loop of _BashSession.run (lines 143-145).
\* ------------------------------------------------------------------------

MaxShellCalls == 2
MaxShellCommands == 2
ShellTasks == 1..2

\* A _BashSession after __init__ (lines 72-74).  returncode is <<>> while
\* _process.returncode is None; has_process tells that _process was
\* assigned (line 87) and terminated that stop() called terminate().
BashSession ==
    [started |-> FALSE, timed_out |-> FALSE, has_process |-> FALSE,
     returncode |-> <<>>, terminated |-> FALSE]

\* start() once create_subprocess_shell returned (lines 87-98).
started(s) == [s EXCEPT !.has_process = TRUE, !.started = TRUE, !.timed_out = FALSE]

stop(s) ==
    IF ~s.started THEN s
    ELSE IF s.returncode # <<>> THEN s
    ELSE [s EXCEPT !.terminated = TRUE]

is_alive(s) ==
    IF ~s.started THEN FALSE
    ELSE IF s.returncode # <<>> THEN FALSE
    ELSE IF s.timed_out THEN FALSE
    ELSE TRUE

\* The restart message _ensure_session chooses for a dead session (lines
\* 225-230); reading _process of a session that has none raises.
NoMessage == [text |-> "", code |-> <<>>]
restart_message(old) ==
    IF old.timed_out
    THEN [text |-> "Previous session timed out. Session auto-restarted.", code |-> <<>>]
    ELSE IF ~old.has_process THEN [text |-> "AttributeError", code |-> <<>>]
    ELSE IF old.returncode # <<>>
    THEN [text |-> "Previous session exited with code ", code |-> old.returncode]
    ELSE [text |-> "Previous session was not usable. Session auto-restarted.", code |-> <<>>]

\* A ShellTool: session is the index of self._session among the sessions
\* created so far, 0 for None.
NewShellTool == [session |-> 0, sessions |-> <<>>]

\* _ensure_session up to its await, or to its return when there is nothing
\* to start: the tool as it leaves it, the message, whether it raised and
\* whether a new session is being started.
ensure_session(tool) ==
    With(IF tool.session = 0 THEN FALSE ELSE ~is_alive(tool.sessions[tool.session]),
         LAMBDA dead :
    With(IF dead THEN restart_message(tool.sessions[tool.session]) ELSE NoMessage,
         LAMBDA message :
         IF message.text = "AttributeError"
         THEN [tool |-> tool, message |-> NoMessage, raised |-> "AttributeError", starting |-> FALSE]
         ELSE IF dead \/ tool.session = 0
         THEN [tool |-> [session |-> Len(tool.sessions) + 1,
                         sessions |-> Append(IF dead
                                             THEN [tool.sessions EXCEPT ![tool.session] = stop(@)]
                                             ELSE tool.sessions,
                                             BashSession)],
               message |-> message, raised |-> "", starting |-> TRUE]
         ELSE [tool |-> tool, message |-> message, raised |-> "", starting |-> FALSE]))

\* A task: a call of ShellTool.__call__ with n commands, i the command the
\* loop of line 271 is at, session and message its local session and
\* restart_message, outputs what it appended, raised the exception that
\* ended it, at where it is suspended ("idle" when no call is under way,
\* "start" in start(), "run" in run()); no is the number of the call.
IdleTask ==
    [at |-> "idle", no |-> 0, n |-> 0, i |-> 0, session |-> 0, message |-> NoMessage,
     outputs |-> <<>>, raised |-> ""]

ShellTool == call.tool
ShellTask(t) == call.tasks[t]

\* What run() writes to the stdin of a session (lines 132-134), as the log
\* keeps it: the call and command it was, the session and whether the
\* session was alive.
Sent(task, tool) ==
    [no |-> task.no, i |-> task.i, session |-> task.session,
     alive |-> is_alive(tool.sessions[task.session])]

\* The loop of __call__ from the top of an iteration (line 271) to the next
\* await or to the return: w is [tool, task, log].
RECURSIVE command_loop(_)
Raised(w, exception) ==
    [w EXCEPT !.task.at = "idle", !.task.raised = exception]
run_command(w) ==
    IF ~w.tool.sessions[w.task.session].started
    THEN command_loop([w EXCEPT !.task.outputs = Append(@, [type |-> "exit", exit_code |-> 1,
                                                           message |-> NoMessage]),
                                !.task.i = @ + 1])
    ELSE [w EXCEPT !.log = Append(@, Sent(w.task, w.tool)), !.task.at = "run"]
ensured(w, message) ==
    [w EXCEPT !.task.session = w.tool.session,
              !.task.message = IF message.text # "" THEN message ELSE @]
command_loop(w) ==
    IF w.task.i > w.task.n THEN [w EXCEPT !.task.at = "idle"]
    ELSE IF is_alive(w.tool.sessions[w.task.session]) THEN run_command(w)
    ELSE With(ensure_session(w.tool), LAMBDA e :
              IF e.raised # "" THEN Raised(w, e.raised)
              ELSE IF e.starting
              THEN [ensured([w EXCEPT !.tool = e.tool], e.message) EXCEPT !.task.at = "start"]
              ELSE run_command(ensured(w, e.message)))

\* Task t is now as w has it.
ShellBecomes(t, w) ==
    /\ call' = [call EXCEPT !.tool = w.tool, !.tasks[t] = w.task]
    /\ log' = w.log
    /\ UNCHANGED <<pc, fs, fs0, result, patch, parser>>

ShellWorld(t) == [tool |-> ShellTool, task |-> ShellTask(t), log |-> log]

\* __call__ with n commands, to its first await (lines 261-279).
BeginShellCall(t, n) ==
    /\ pc = "shell"
    /\ ShellTask(t).at = "idle"
    /\ call.calls < MaxShellCalls
    /\ \E task \in {[IdleTask EXCEPT !.no = call.calls + 1, !.n = n, !.i = 1]} :
       \E e \in {ensure_session(ShellTool)} :
       \E w \in {IF n = 0 THEN Raised([tool |-> ShellTool, log |-> log, task |-> task], "ToolError")
                 ELSE IF e.raised # "" THEN Raised([tool |-> ShellTool, log |-> log, task |-> task], e.raised)
                 ELSE IF e.starting
                 THEN [tool |-> e.tool, log |-> log,
                       task |-> [task EXCEPT !.at = "start", !.session = e.tool.session,
                                             !.message = e.message]]
                 ELSE command_loop([tool |-> e.tool, log |-> log,
                                    task |-> [task EXCEPT !.session = e.tool.session,
                                                          !.message = e.message]])} :
          /\ call' = [call EXCEPT !.calls = @ + 1, !.tool = w.tool, !.tasks[t] = w.task]
          /\ log' = w.log
    /\ UNCHANGED <<pc, fs, fs0, result, patch, parser>>

\* create_subprocess_shell returned: start() ends (lines 97-98),
\* _ensure_session returns and the loop goes on to run().
StartReturns(t) ==
    /\ pc = "shell"
    /\ ShellTask(t).at = "start"
    /\ \E w \in {ShellWorld(t)} :
          ShellBecomes(t, command_loop([w EXCEPT !.tool.sessions[w.task.session] = started(@)]))

\* create_subprocess_shell raised: the exception leaves start(),
\* _ensure_session and __call__.
StartRaises(t) ==
    /\ pc = "shell"
    /\ ShellTask(t).at = "start"
    /\ ShellBecomes(t, Raised(ShellWorld(t), "OSError"))

\* The output run() returned is appended, with the restart message if there
\* is one (lines 282-286), and the loop goes on.
appended(w, type, code) ==
    command_loop([w EXCEPT !.task.outputs = Append(@, [type |-> type, exit_code |-> code,
                                                       message |-> w.task.message]),
                           !.task.message = NoMessage,
                           !.task.i = @ + 1])

\* The read loop of run() found the sentinel (lines 150-166, 179-193).
RunExits(t) ==
    /\ pc = "shell"
    /\ ShellTask(t).at = "run"
    /\ ShellBecomes(t, appended(ShellWorld(t), "exit", <<0>>))

\* The read loop of run() timed out (lines 167-177).
RunTimesOut(t) ==
    /\ pc = "shell"
    /\ ShellTask(t).at = "run"
    /\ \E w \in {ShellWorld(t)} :
          ShellBecomes(t, appended([w EXCEPT !.tool.sessions[w.task.session].timed_out = TRUE],
                                   "timeout", <<>>))

\* The process of a session the tool or a call under way still holds exits,
\* and the event loop sets its returncode.
ProcessExits(s) ==
    /\ pc = "shell"
    /\ \/ s = ShellTool.session
       \/ \E t \in ShellTasks : ShellTask(t).at # "idle" /\ ShellTask(t).session = s
    /\ ShellTool.sessions[s].started
    /\ ShellTool.sessions[s].returncode = <<>>
    /\ call' = [call EXCEPT !.tool.sessions[s].returncode = <<0>>]
    /\ UNCHANGED <<pc, fs, fs0, log, result, patch, parser>>

InitShell ==
    /\ pc = "shell"
    /\ fs = EmptyDict
    /\ fs0 = fs
    /\ log = <<>>
    /\ call = [op |-> "shell", path |-> <<>>, diff |-> <<>>, calls |-> 0,
               tool |-> NewShellTool, tasks |-> [t \in ShellTasks |-> IdleTask]]
    /\ result = NoResult
    /\ patch = NoPatch
    /\ parser = NoParser

NextShell ==
    \/ \E t \in ShellTasks, n \in 0..MaxShellCommands : BeginShellCall(t, n)
    \/ \E t \in ShellTasks : StartReturns(t)
    \/ \E t \in ShellTasks : StartRaises(t)
    \/ \E t \in ShellTasks : RunExits(t)
    \/ \E t \in ShellTasks : RunTimesOut(t)
    \/ \E s \in 1..Len(ShellTool.sessions) : ProcessExits(s)
SpecShell == InitShell /\ [][NextShell]_vars

\* ------------------------------------------------------------------------
\* C31: the session is restarted
\* ------------------------------------------------------------------------

\* Every command was written to a session that was alive: started, not
\* timed out, its process not known to have exited.
SentToLive == \A k \in 1..Len(log) : log[k].alive

\* No call was ended by its session being dead: a call ends by returning,
\* by the ToolError of an empty list of commands or by the error
\* create_subprocess_shell raised.
NoCallGivenUp ==
    \A t \in ShellTasks : ShellTask(t).raised \in {"", "ToolError", "OSError"}

\* The command after one that timed out went to another session than the
\* one that timed out.
NextAfterTimeout ==
    \A t \in ShellTasks : \A j, k \in 1..Len(log) :
        (/\ log[j].no = ShellTask(t).no /\ log[k].no = ShellTask(t).no
         /\ log[k].i = log[j].i + 1
         /\ log[j].i <= Len(ShellTask(t).outputs)
         /\ ShellTask(t).outputs[log[j].i].type = "timeout")
        => log[k].session # log[j].session /\ log[k].session > log[j].session

\* C31: ShellTool restarts its session by itself.  No command is sent to a
\* session that timed out or whose process exited; before each command a
\* dead session is stopped and replaced by one freshly started, so that no
\* call is given up over a dead session; and after a command of a list
\* timed out the following command runs in a new session.
C31_AutoRestart ==
    pc = "shell" => SentToLive /\ NoCallGivenUp /\ NextAfterTimeout

\* ------------------------------------------------------------------------
\* C32: the removed lines of a chunk are the lines of the file at its place
\* ------------------------------------------------------------------------

\* The parser went through the Update section of f.
ParsedF ==
    /\ pc = "done" /\ call.op = "update_file" /\ call.path = PathF
    /\ ~IsErr(patch.err)
    /\ Len(patch.actions) = 1 /\ patch.actions[1].type = "update"

\* The lines of the original file from the place of chunk c on, as many as
\* the chunk removes.
RemovedAt(c) == HalfOpen(OriginalF, c.orig_index, c.orig_index + Len(c.del_lines))

\* The chunks hunk h gave.
ChunksOfHunk(h) == {ChunksOfF[n] : n \in h.chunks[1]..h.chunks[2]}

\* C32: for every chunk of a hunk that was resolved at fuzz 0, the lines of
\* the original file at [orig_index, orig_index + len(del_lines)) are the
\* del_lines of the chunk.
C32_RemovedLinesMatch ==
    ParsedF =>
        \A k \in 1..Len(HunksOfF) :
            HunksOfF[k].fuzz = 0 =>
                \A c \in ChunksOfHunk(HunksOfF[k]) : RemovedAt(c) = c.del_lines

\* A call went through with a hunk resolved at fuzz 0 one of whose chunks
\* removes a line past the first line of the file.
C32_Witness ==
    /\ ParsedF
    /\ result.status = "completed"
    /\ \E k \in 1..Len(HunksOfF) :
          /\ HunksOfF[k].fuzz = 0
          /\ \E c \in ChunksOfHunk(HunksOfF[k]) :
                c.del_lines # <<>> /\ c.orig_index > 0

\* ------------------------------------------------------------------------
\* C33: the store after a commit was applied
\* ------------------------------------------------------------------------

\* The store holds content at the place path resolves to, or nothing there.
Holds(path, content) ==
    /\ validate_path(path).full \in DOMAIN fs
    /\ fs[validate_path(path).full] = content
Absent(path) == validate_path(path).full \notin DOMAIN fs

\* The store shows the change.
Reflected(change) ==
    IF change.type = "delete" THEN Absent(change.path)
    ELSE IF change.type = "add" THEN Holds(change.path, change.new_content)
    ELSE IF change.move_path = <<>> THEN Holds(change.path, change.new_content)
    ELSE Holds(change.move_path, change.new_content) /\ Absent(change.path)

\* C33: once _apply_commit returned, the store shows every change of the
\* commit: the path of an Add and of an Update in place holds the new
\* content, the move path of an Update that moves holds it while the old
\* path is absent, the path of a Delete is absent; also when a move path is
\* the path of its own action or of another action of the commit.
C33_CommitReflected ==
    (pc = "done" /\ call.op = "_apply_commit" /\ result.status = "returned") =>
        \A k \in 1..Len(call.changes) : Reflected(call.changes[k])

\* ------------------------------------------------------------------------
\* C34: every line of a document is read into an action
\* ------------------------------------------------------------------------

\* Documents, and diffs of update_file on f, whose lines are section
\* headers with and without a path, a move line, body lines and a line that
\* opens with the end sentinel, followed one iteration of the loop of
\* Parser.parse at a time.
MaxReadLines == 3

ReadDocLines ==
    {UpdateFilePrefix \o PathF, UpdateFilePrefix, DeleteFilePrefix \o PathF, DeleteFilePrefix,
     AddFilePrefix \o PathG, AddFilePrefix, MoveToPrefix \o PathG, Ctx(<<"a">>), Ins(<<"x">>),
     EndPatches}
ReadDocs == {Join(ls) : ls \in SeqsOf(ReadDocLines, 1, MaxReadLines)}

InitRead == InitOver({StoreOfF(<<<<"a">>>>)})
BeginReadDoc == pc = "ready" /\ \E doc \in ReadDocs : BeginDiff(doc)
BeginReadUpdate == pc = "ready" /\ \E doc \in ReadDocs : BeginUpdate(PathF, doc)
NextRead == BeginReadDoc \/ BeginReadUpdate \/ ParseSection \/ EndParse
SpecRead == InitRead /\ [][NextRead]_vars

\* The header line of the section an action was parsed from.
HeaderLine(action) ==
    (IF action.type = "update" THEN UpdateFilePrefix
     ELSE IF action.type = "delete" THEN DeleteFilePrefix
     ELSE AddFilePrefix) \o action.path

\* An iteration of the loop of Parser.parse ended without an error.
SectionRead == pc = "parsing" /\ parser.at >= 0 /\ ~IsErr(parser.st.err)

\* The parser came to the end of a document without an error.
ParsedToEnd ==
    /\ pc = "done" /\ call.op \in {"process_v4a_diff", "update_file"}
    /\ parser # NoParser
    /\ ~IsErr(ParseEnd(parser.plines, parser.st).err)

\* C34: every line between the two sentinels is read into exactly one
\* action or fails the parse.  The lines an iteration of the section loop
\* read without an error are those of the one action it added, the first of
\* them being the header of that action; and a parse that ended without an
\* error read every line up to the last line of the document, the end
\* sentinel.
C34_EveryLineRead ==
    /\ SectionRead =>
          /\ Len(parser.st.actions) = Len(parser.before) + 1
          /\ SectionLine = HeaderLine(parser.st.actions[Len(parser.st.actions)])
    /\ ParsedToEnd => parser.st.pindex + 1 = Len(parser.plines)

\* ------------------------------------------------------------------------
\* C35: a path that is refused
\* ------------------------------------------------------------------------

\* The call failed because _validate_path refused a path.
PathRejected ==
    /\ result.status = "failed"
    /\ result.msg \in {"Error: Absolute paths are not allowed: ",
                       "Error: Path traversal detected: "}

\* C35: when path validation refuses a path of a patch document (the path
\* of an Add, Update or Delete section or a move target), no file was
\* written or removed: the store is as it was before the call.
C35_RejectedBeforeChange ==
    (pc = "done" /\ PathRejected) => ChangesMade = <<>> /\ fs = fs0

\* ------------------------------------------------------------------------
\* C36: what update_file changes
\* ------------------------------------------------------------------------

\* The places update_file on call.path may change: the path itself and the
\* targets of the move lines of its diff.
OwnPlaces ==
    {validate_path(p).full :
        p \in {call.path} \cup NamedBy(Split(call.diff), MoveToPrefix)}

\* C36: update_file on a path writes and removes no other path than that
\* one and the target of a '*** Move to: ' line, whatever its diff holds,
\* section headers of other files included.
C36_UpdateOwnPath ==
    (pc = "done" /\ call.op = "update_file" /\ ~BadCall) =>
        \A k \in 1..Len(ChangesMade) : ChangesMade[k].path \in OwnPlaces

\* ------------------------------------------------------------------------
\* C37: create_file and the Add File section
\* ------------------------------------------------------------------------

\* create_file on g with bodies of up to MaxCreateLines lines: '+' lines
\* with a text, without one and with a blank, a line that opens with a
\* blank, a line with no mark and an empty line.
MaxCreateLines == 3

CreateBodyLines == {Ins(<<"x">>), Ins(<<>>), Ins(<<" ">>), Ctx(<<"a">>), <<"x">>, <<>>}
CreateBodies == {Join(ls) : ls \in SeqsOf(CreateBodyLines, 1, MaxCreateLines)}

InitCreate == InitOver({StoreOfF(<<<<"a">>>>)})
NextCreate == pc = "ready" /\ \E body \in CreateBodies : Call("create_file", PathG, body)
SpecCreate == InitCreate /\ [][NextCreate]_vars

\* What a document with the one section '*** Add File: ' of the path and
\* the body of the call does on the store the call began with.
AsAddSection ==
    process_v4a_diff([fs |-> fs0, log |-> <<>>],
                     AddFilePrefix \o call.path \o <<NL>> \o call.diff, <<>>)

CreateCalled == pc = "done" /\ call.op = "create_file"

\* C37: create_file and an Add File section agree on a body.  When both go
\* through they leave the same content in the file, and when the section
\* fails with 'Invalid Add File Line' for a body line that does not begin
\* with '+', create_file fails.
C37_CreateAsAdd ==
    CreateCalled =>
        /\ (result.status = "completed" /\ AsAddSection.result.status = "returned")
              => fs = AsAddSection.w.fs
        /\ (/\ AsAddSection.result.status = "raised"
            /\ AsAddSection.result.msg = "Invalid Add File Line: ")
              => result.status = "failed"

\* ------------------------------------------------------------------------
\* run_pipeline (imagectl3.py): the main thread and the worker threads it
\* starts, on the three queues.  A step of a thread is one operation on a
\* queue together with the code that runs before the thread's next
\* operation on a queue; the threads interleave step by step.
\* ------------------------------------------------------------------------

MaxJobs == 2
MaxSpecs == 1

Stages == <<"build", "validate", "push">>
StageNames == {Stages[k] : k \in DOMAIN Stages}

\* A queue.Queue: the items it holds, 0 for None, and its unfinished_tasks
\* (raised by put, lowered by task_done; join waits for it to be 0).
NewQueue == [items |-> <<>>, unfinished |-> 0]
put(q, item) == [items |-> Append(q.items, item), unfinished |-> q.unfinished + 1]
task_done(q) == [q EXCEPT !.unfinished = @ - 1]
\* A join that does not wait.
joined_at_once(q) == TRUE
joined(q) == q.unfinished = 0

\* The six lists run_pipeline returns (lines 343-348).
NewLists ==
    [built_success |-> <<>>, built_failed |-> <<>>,
     validated_success |-> <<>>, validated_failed |-> <<>>,
     pushed_success |-> <<>>, pushed_failed |-> <<>>]
SuccessList(stage) ==
    CASE stage = "build" -> "built_success"
      [] stage = "validate" -> "validated_success"
      [] stage = "push" -> "pushed_success"
FailedList(stage) ==
    CASE stage = "build" -> "built_failed"
      [] stage = "validate" -> "validated_failed"
      [] stage = "push" -> "pushed_failed"

\* A worker thread: at is "get" when it
\* waits in get(), "got" when get() returned item, "task_done" before the
\* task_done() of an image, "exited" after the break and "dead" after an
\* exception left its function; signals counts the None items it took.
NewWorker == [at |-> "get", item |-> 0, signals |-> 0]
\* The threads of a stage are told apart by nothing but where they are: n
\* of them that were just started, and one of them moving from a to b.
Started(n) == IF n = 0 THEN EmptyBag ELSE [w \in {NewWorker} |-> n]
Moved(workers, a, b) == (workers (-) SetToBag({a})) (+) SetToBag({b})

\* The stages run_pipeline works through: build (lines 504-519) when build
\* is set, validate when validate is set (lines 436, 491, 522), push when
\* push is set (lines 442, 462, 466, 498, 528).
Enabled(c, stage) ==
    CASE stage = "build" -> c.build
      [] stage = "validate" -> c.validate
      [] stage = "push" -> c.push
EnabledFrom(c, k) == {j \in k..Len(Stages) : Enabled(c, Stages[j])}
Least(S) == CHOOSE j \in S : \A i \in S : j <= i
\* The first enabled stage from the k-th on, "" if there is none.
StageFrom(c, k) == IF EnabledFrom(c, k) = {} THEN "" ELSE Stages[Least(EnabledFrom(c, k))]
StageNo(stage) == CHOOSE k \in DOMAIN Stages : Stages[k] = stage
StageAfter(c, stage) == StageFrom(c, StageNo(stage) + 1)

\* A worker that puts every image on, whatever its stage function returned.
next_queue_unchecked(c, stage, ok) ==
    IF stage = "push" THEN "" ELSE StageAfter(c, stage)

\* Where a worker of stage puts an image its stage function returned ok
\* for (lines 377-383, 426-428): "" when it puts it nowhere.
next_queue(c, stage, ok) ==
    IF stage = "push" THEN ""
    ELSE IF ~ok THEN ""
    ELSE StageAfter(c, stage)

\* The threads of a stage as they are now.
PipelineWorkers(stage) == BagToSet(call.workers[stage])

\* What threads draw from their surroundings: what build_image,
\* validate_image and push_image return or that they raise (run_command,
\* lines 156-170, starts the docker executable and decodes its output),
\* and the same for image_exists_locally (lines 225-227).
StageOutcomes == {"ok", "failed", "raises"}
ExistsOutcomes == {"exists", "missing", "raises"}

PipelineBecomes(c, l) ==
    /\ call' = c
    /\ log' = l
    /\ UNCHANGED <<pc, fs, fs0, result, patch, parser>>

\* run_pipeline(specs, build, push, validate, jobs) with n specs, the
\* images 1..n, up to the first put: the threads are started (lines
\* 436-446, 468-471, 491-508).
run_pipeline(build, validate, push, jobs, n) ==
    /\ pc = "pipeline"
    /\ call.main.at = "ready"
    /\ \E c \in {[call EXCEPT !.build = build, !.validate = validate, !.push = push,
                              !.jobs = jobs, !.specs = n]} :
       \E first \in {StageFrom(c, 1)} :
          PipelineBecomes(
              [c EXCEPT !.workers = [s \in StageNames |->
                                          Started(IF Enabled(c, s) THEN jobs ELSE 0)],
                        !.main = IF first = "" THEN [at |-> "join_threads", stage |-> "", i |-> 0]
                                 ELSE [at |-> "enqueue", stage |-> first, i |-> 1]],
              log)

\* One turn of the loop over specs (lines 448-455, 473-479, 511-512): the
\* image is put on the queue of the first stage, after a look whether it
\* exists when that stage is not build.
Enqueue(exists) ==
    /\ pc = "pipeline"
    /\ call.main.at = "enqueue"
    /\ call.main.i <= call.specs
    /\ call.main.stage = "build" => exists = "exists"
    /\ \E i \in {call.main.i}, stage \in {call.main.stage} :
          IF exists = "raises"
          THEN PipelineBecomes([call EXCEPT !.main.at = "raised"], log)
          ELSE IF exists = "exists"
          THEN PipelineBecomes([call EXCEPT !.queues[stage] = put(@, i), !.main.i = i + 1],
                               log)
          ELSE PipelineBecomes([call EXCEPT !.lists[FailedList(stage)] = Append(@, i),
                                            !.main.i = i + 1],
                               log)

\* One turn of a loop that sends the termination signals of a stage (lines
\* 458-459, 463-464, 482-483, 515-516, 523-524, 529-530); the first turn
\* follows the loop over specs or the join of the stage before.
Signal ==
    /\ pc = "pipeline"
    /\ \/ call.main.at = "enqueue" /\ call.main.i > call.specs
       \/ call.main.at = "signal"
    /\ \E k \in {IF call.main.at = "enqueue" THEN 1 ELSE call.main.i} :
          PipelineBecomes([call EXCEPT !.queues[call.main.stage] = put(@, 0),
                                       !.main.at = IF k = call.jobs THEN "join" ELSE "signal",
                                       !.main.i = k + 1],
                          log)

\* join() of the queue of a stage returns (lines 460, 465, 484, 519, 525,
\* 531) and the main thread goes on to the next enabled stage.
JoinQueue ==
    /\ pc = "pipeline"
    /\ call.main.at = "join"
    /\ joined(call.queues[call.main.stage])
    /\ \E next \in {StageAfter(call, call.main.stage)} :
          PipelineBecomes([call EXCEPT !.main = IF next = ""
                                                THEN [at |-> "join_threads", stage |-> "", i |-> 0]
                                                ELSE [at |-> "signal", stage |-> next, i |-> 1]],
                          log)

\* The joins of the threads return (lines 486-487, 533-534), which those of
\* a thread that ended do, and run_pipeline returns the lists.
JoinThreads ==
    /\ pc = "pipeline"
    /\ call.main.at = "join_threads"
    /\ \A s \in StageNames : \A w \in PipelineWorkers(s) : w.at \in {"exited", "dead"}
    /\ PipelineBecomes([call EXCEPT !.main.at = "returned"], log)

\* get() of a worker w of stage s returns the head of its queue (lines 356,
\* 388, 414).
Get(s, w) ==
    /\ pc = "pipeline"
    /\ w.at = "get"
    /\ call.queues[s].items # <<>>
    /\ PipelineBecomes(
           [call EXCEPT !.queues[s].items = Tail(@),
                        !.workers[s] = Moved(@, w, [w EXCEPT !.at = "got",
                                                             !.item = Head(call.queues[s].items)])],
           log)

\* A worker that got None calls task_done and leaves its loop (lines
\* 357-359, 389-391, 415-417).
Exit(s, w) ==
    /\ pc = "pipeline"
    /\ w.at = "got"
    /\ w.item = 0
    /\ PipelineBecomes(
           [call EXCEPT !.queues[s] = task_done(@),
                        !.workers[s] = Moved(@, w, [w EXCEPT !.at = "exited", !.signals = @ + 1])],
           log)

\* A worker that got an image runs its stage on it, appends the image to
\* the list of the outcome and puts it on the queue of the next stage (lines
\* 360-383, 392-409, 418-428).
Work(s, w, outcome) ==
    /\ pc = "pipeline"
    /\ w.at = "got"
    /\ w.item # 0
    /\ outcome = "missing" => s = "push"
    /\ \E to \in {next_queue(call, s, outcome = "ok")} :
          IF outcome = "raises"
          THEN PipelineBecomes([call EXCEPT !.workers[s] = Moved(@, w, [w EXCEPT !.at = "dead"])],
                               log)
          ELSE PipelineBecomes(
                   [call EXCEPT !.lists[IF outcome = "ok" THEN SuccessList(s)
                                        ELSE FailedList(s)] = Append(@, w.item),
                                !.queues = IF to = "" THEN @ ELSE [@ EXCEPT ![to] = put(@, w.item)],
                                !.workers[s] = Moved(@, w, [w EXCEPT !.at = "task_done"])],
                   log)

\* The task_done of an image (lines 384, 401, 410, 429).
TaskDone(s, w) ==
    /\ pc = "pipeline"
    /\ w.at = "task_done"
    /\ PipelineBecomes(
           [call EXCEPT !.queues[s] = task_done(@),
                        !.workers[s] = Moved(@, w, [w EXCEPT !.at = "get", !.item = 0])],
           log)

InitPipeline ==
    /\ pc = "pipeline"
    /\ fs = EmptyDict
    /\ fs0 = fs
    /\ log = <<>>
    /\ call = [op |-> "pipeline", path |-> <<>>, diff |-> <<>>,
               build |-> FALSE, validate |-> FALSE, push |-> FALSE, jobs |-> 1, specs |-> 0,
               main |-> [at |-> "ready", stage |-> "", i |-> 0],
               queues |-> [s \in StageNames |-> NewQueue],
               workers |-> [s \in StageNames |-> EmptyBag],
               lists |-> NewLists]
    /\ result = NoResult
    /\ patch = NoPatch
    /\ parser = NoParser

MainStep ==
    \/ \E build \in BOOLEAN, validate \in BOOLEAN, push \in BOOLEAN :
       \E jobs \in 1..MaxJobs, n \in 0..MaxSpecs : run_pipeline(build, validate, push, jobs, n)
    \/ \E exists \in ExistsOutcomes : Enqueue(exists)
    \/ Signal
    \/ JoinQueue
    \/ JoinThreads
WorkerStep(s) ==
    \E w \in PipelineWorkers(s) :
       \/ Get(s, w)
       \/ Exit(s, w)
       \/ \E outcome \in StageOutcomes \cup {"missing"} : Work(s, w, outcome)
       \/ TaskDone(s, w)
NextPipeline == MainStep \/ \E s \in StageNames : WorkerStep(s)
SpecPipeline == InitPipeline /\ [][NextPipeline]_vars

\* The main thread takes a step in the end when it can, and so do the
\* threads of a stage.
FairSpecPipeline ==
    SpecPipeline /\ WF_vars(MainStep) /\ \A s \in StageNames : WF_vars(WorkerStep(s))

\* ------------------------------------------------------------------------
\* C38: push only after the stage before succeeded
\* ------------------------------------------------------------------------

PushQueue == call.queues["push"].items
ListHas(list, i) == \E k \in DOMAIN call.lists[list] : call.lists[list][k] = i

\* A step put image i on the push queue.
PutOnPush(i) ==
    /\ Len(PushQueue') = Len(PushQueue) + 1
    /\ PushQueue'[Len(PushQueue')] = i

\* The images the push stage has or had: those on its queue, those its
\* workers hold and those on its lists.
AtPush ==
    ({PushQueue[k] : k \in DOMAIN PushQueue}
         \cup {w.item : w \in PipelineWorkers("push")}
         \cup {i \in 1..MaxSpecs : ListHas("pushed_success", i) \/ ListHas("pushed_failed", i)})
        \ {0}

\* C38: in run_pipeline an image is put on the push queue only after the
\* stage before it succeeded, that is, when it is on validated_success if
\* validate is set and on built_success if build is set; and an image on
\* built_failed or validated_failed is never at the push stage.
C38_PushAfterSuccess ==
    /\ [][pc = "pipeline" =>
            \A i \in 1..MaxSpecs :
               PutOnPush(i) =>
                  /\ call'.validate => ListHas("validated_success", i)'
                  /\ call'.build => ListHas("built_success", i)']_vars
    /\ [](pc = "pipeline" =>
            \A i \in AtPush : ~ListHas("built_failed", i) /\ ~ListHas("validated_failed", i))

\* An image that was built and validated is on the push queue.
C38_Witness ==
    /\ pc = "pipeline"
    /\ call.build /\ call.validate /\ call.push
    /\ PushQueue # <<>>
    /\ Head(PushQueue) # 0
    /\ ListHas("built_success", Head(PushQueue))
    /\ ListHas("validated_success", Head(PushQueue))

\* ------------------------------------------------------------------------
\* C39: run_pipeline terminates
\* ------------------------------------------------------------------------

Returned == pc = "pipeline" /\ call.main.at = "returned"

\* Every worker thread took one None and left its loop.
SignalledOnce ==
    \A s \in StageNames : \A w \in PipelineWorkers(s) : w.at = "exited" /\ w.signals = 1

\* An exception left a stage function in a worker, or image_exists_locally
\* in the main thread.
SomeRaised ==
    \/ call.main.at = "raised"
    \/ \E s \in StageNames : \E w \in PipelineWorkers(s) : w.at = "dead"

\* run_pipeline returns, every worker signalled once, unless a call that
\* starts docker raised.
ReturnsUnlessRaised ==
    /\ <>(pc = "pipeline" /\ (Returned \/ SomeRaised))
    /\ [](Returned => SignalledOnce /\ ~SomeRaised)
    /\ [](pc = "pipeline" =>
             \A s \in StageNames : \A w \in PipelineWorkers(s) : w.signals <= 1)

\* C39: run_pipeline terminates for every jobs >= 1, every number of specs
\* and every combination of build, validate and push: it returns in the end,
\* and when it returns every worker thread has taken exactly one
\* termination signal and has exited.
C39_Terminates ==
    /\ <>Returned
    /\ [](Returned => SignalledOnce)

\* ------------------------------------------------------------------------
\* C40: no work is lost when run_pipeline returns
\* ------------------------------------------------------------------------

\* How often image i is on a list.
Listed(list, i) == Cardinality({k \in DOMAIN call.lists[list] : call.lists[list][k] = i})

\* Image i reached a stage: the stage is enabled and every enabled stage
\* before it listed the image as a success.
ReachedStage(i, k) ==
    /\ Enabled(call, Stages[k])
    /\ \A j \in 1..(k - 1) : Enabled(call, Stages[j]) => Listed(SuccessList(Stages[j]), i) = 1

\* No queue holds an item or waits for a task_done, and no worker holds an
\* item.
NothingQueued ==
    /\ \A s \in StageNames : call.queues[s] = NewQueue
    /\ \A s \in StageNames : \A w \in PipelineWorkers(s) : w.item = 0

\* C40: when run_pipeline returns, under every interleaving of the threads,
\* nothing is left on a queue or in the hands of a worker, and every image
\* is exactly once on the success and failed lists of each stage it reached
\* (and on neither list of a stage it did not reach), so that an image a
\* stage succeeded on was processed by the next enabled stage.
C40_NoWorkLost ==
    Returned =>
        /\ NothingQueued
        /\ \A i \in 1..call.specs : \A k \in DOMAIN Stages :
              Listed(SuccessList(Stages[k]), i) + Listed(FailedList(Stages[k]), i)
                  = IF ReachedStage(i, k) THEN 1 ELSE 0

\* run_pipeline returned from a run with two workers a stage and all stages
\* enabled in which an image went through every stage.
C40_Witness ==
    /\ Returned
    /\ call.jobs = 2
    /\ call.build /\ call.validate /\ call.push
    /\ call.specs >= 1
    /\ Listed("built_success", 1) = 1
    /\ Listed("validated_success", 1) = 1
    /\ Listed("pushed_success", 1) + Listed("pushed_failed", 1) = 1

====
